---------------------------- MODULE Spec2Model ----------------------------
(***************************************************************************)
(* Ride-app dispatch core of RideLink: the provider registry               *)
(* (hooks/useAppManager), and the launch orchestrator (hooks/useRideApps)   *)
(* together with the screen handler that feeds it (app/(tabs)/index.tsx).   *)
(*                                                                         *)
(* AsyncStorage serialises its operations: requests are served in the       *)
(* order they were issued, so the operations in flight are a FIFO queue     *)
(* and the continuation after an `await` runs when the request at the head  *)
(* completes.                                                              *)
(***************************************************************************)
EXTENDS Integers, Sequences, FiniteSets, TLC

\* ------------------------------------------------------------------ bounds
\* number of user mutations (toggle / reset) issued in one behaviour
MaxOps == 2

\* the components that use useAppManager: RideLauncherScreen (through
\* useRideApps) and AppManagerModal; each is mounted at most once
Views == {"screen", "modal"}

\* ids the user toggles in the model: two catalog ids and one id that is not
\* in the catalog
ToggleIds == {"bolt", "grab", "waze"}

\* --------------------------------------------------------------- catalog
App(id, name, icon, color, packageId, enabled, scheme) ==
  [id |-> id, name |-> name, icon |-> icon, color |-> color,
   packageId |-> packageId, enabled |-> enabled, deepLinkScheme |-> scheme,
   playStoreUrl |-> "market://details?id=" \o packageId]

DEFAULT_RIDE_APPS ==
  << App("uber", "Uber", "U+1F697", "#000000", "com.ubercab", TRUE, "uber"),
     App("99", "99", "U+1F7E1", "#ffd700", "com.taxis99", TRUE, "taxis99"),
     App("lyft", "Lyft", "U+1F7E3", "#ff00bf", "com.lyft", TRUE, "lyft"),
     App("taxirio", "Taxi.Rio", "U+1F695", "#ff6b35",
         "br.gov.rj.taxi.rio.passenger", FALSE, "br.gov.rj.taxi.rio.passenger"),
     App("indriver", "inDriver", "U+1F535", "#1e40af",
         "sinet.startup.inDriver", FALSE, "indriver"),
     App("bolt", "Bolt", "U+26A1", "#34d399", "ee.mtakso.client", FALSE, "bolt"),
     App("grab", "Grab", "U+1F7E2", "#00b14f", "com.grabtaxi.passenger", FALSE, "grab"),
     App("careem", "Careem", "U+1F7E4", "#8b5a2b", "com.careem.acma", FALSE, "careem"),
     App("ola", "Ola", "U+1F7E0", "#f97316", "com.olacabs.customer", FALSE, "olacabs"),
     App("yandex", "Yandex Go", "U+1F534", "#dc2626", "ru.yandex.taxi", FALSE, "yandextaxi") >>

CatalogIds == [i \in 1..Len(DEFAULT_RIDE_APPS) |-> DEFAULT_RIDE_APPS[i].id]

\* ------------------------------------------------------------ the store
\* The item under APP_MANAGER_STORAGE_KEY: absent (getItem yields null), a
\* string JSON.parse rejects or that is not an array, or a JSON array.
Absent == [kind |-> "absent"]
Corrupt == [kind |-> "corrupt"]

JSONstringify(config) == [kind |-> "json", value |-> config]

\* a stored record as an older or foreign writer may have left it
Rec(id, enabled) == [id |-> id, enabled |-> enabled]

\* blobs the store may hold when the program starts
InitBlobs ==
  { Absent, Corrupt,
    JSONstringify(<< Rec("grab", TRUE), Rec("waze", TRUE), Rec("uber", FALSE) >>),
    JSONstringify(<< Rec("lyft", FALSE), Rec("lyft", TRUE), Rec("bolt", TRUE) >>) }

VARIABLES
  storage,      \* the item under APP_MANAGER_STORAGE_KEY
  queue,        \* AsyncStorage requests in flight, oldest first
  listeners,    \* appConfigEmitter.listeners: the subscribed views, in order
  life,         \* per view: "new" (not mounted yet), "live", "dead"
  rideApps,     \* per view: the rideApps state of useAppManager
  loading,      \* per view: the loading state of useAppManager
  isResetting,  \* per view: the isResetting state of AppManagerModal
  ops,          \* number of user mutations issued so far
  writeLog,     \* the writes the store has taken, oldest first
  loadFailed,   \* per view: its latest load ended in the catch block
  lastEvent     \* the last completed step, for stating the properties

regVars == << storage, queue, listeners, life, rideApps, loading,
              isResetting, ops, writeLog, loadFailed, lastEvent >>

VARIABLES
  platformOS,          \* Platform.OS
  pickupAddress,       \* screen state of RideLauncherScreen
  pickupCoords,        \*   << >> is null, << c >> a coordinate pair
  destinationAddress,
  destinationCoords,
  isLoading,           \* the isLoading state of useRideApps
  pc,                  \* where the openRideApp invocation in flight is suspended
  call,                \* the arguments and locals of that invocation
  calls,               \* builder and platform calls made for the last dispatch
  alerts,              \* the alerts on screen
  timers,              \* pending setTimeout callbacks
  outcome,             \* how the last dispatch attempt ended
  dispatches           \* number of dispatch attempts so far

dispVars == << platformOS, pickupAddress, pickupCoords, destinationAddress,
               destinationCoords, isLoading, pc, call, calls, alerts, timers,
               outcome, dispatches >>

vars == << regVars, dispVars >>

NoEvent == [type |-> "none"]

\* --------------------------------------------------- useAppManager: load
\* storedConfig.find(app => app.id === id): the first match, or undefined
FindStored(storedConfig, id) ==
  LET hits == {i \in 1..Len(storedConfig) : storedConfig[i].id = id}
  IN  IF hits = {} THEN << >>
      ELSE << storedConfig[CHOOSE i \in hits : \A j \in hits : i <= j] >>

\* mutant: the merge walks the stored list instead of the defaults, so a
\* provider the store does not know is lost
MergeWithDefaults_StoredOnly(storedConfig) ==
  SelectSeq([i \in 1..Len(DEFAULT_RIDE_APPS) |->
               LET storedApp == FindStored(storedConfig, DEFAULT_RIDE_APPS[i].id)
               IN  IF storedApp # << >>
                   THEN [DEFAULT_RIDE_APPS[i] EXCEPT !.enabled = storedApp[1].enabled]
                   ELSE DEFAULT_RIDE_APPS[i]],
            LAMBDA app : FindStored(storedConfig, app.id) # << >>)

\* mutant: the stored records whose id the catalogue does not have are kept,
\* appended after the merged defaults
MergeWithDefaults_KeepsUnknown(storedConfig) ==
  [i \in 1..Len(DEFAULT_RIDE_APPS) |->
     LET defaultApp == DEFAULT_RIDE_APPS[i]
         storedApp  == FindStored(storedConfig, defaultApp.id)
     IN  IF storedApp # << >>
         THEN [defaultApp EXCEPT !.enabled = storedApp[1].enabled]
         ELSE defaultApp]
  \o [i \in 1..Len(SelectSeq(storedConfig, LAMBDA r :
                     \A k \in DOMAIN DEFAULT_RIDE_APPS :
                       DEFAULT_RIDE_APPS[k].id # r.id)) |->
        LET r == SelectSeq(storedConfig, LAMBDA x :
                   \A k \in DOMAIN DEFAULT_RIDE_APPS :
                     DEFAULT_RIDE_APPS[k].id # x.id)[i]
        IN  [DEFAULT_RIDE_APPS[1] EXCEPT !.id = r.id, !.enabled = r.enabled]]

\* DEFAULT_RIDE_APPS.map(defaultApp => storedApp ? {...defaultApp, enabled} : defaultApp)
MergeWithDefaults(storedConfig) ==
  [i \in 1..Len(DEFAULT_RIDE_APPS) |->
     LET defaultApp == DEFAULT_RIDE_APPS[i]
         storedApp  == FindStored(storedConfig, defaultApp.id)
     IN  IF storedApp # << >>
         THEN [defaultApp EXCEPT !.enabled = storedApp[1].enabled]
         ELSE defaultApp]

\* the rideApps state after the try block of loadAppConfiguration, given what
\* getItem returned: a null item sets nothing, a blob that does not parse
\* throws into the catch, which sets nothing either
LoadedApps(current, stored) ==
  IF stored.kind = "json" THEN MergeWithDefaults(stored.value) ELSE current

\* mutant: emit() reaches no listener
EmitRequests_NoListener(cause) == << >>

\* mutant: emit() walks the listeners twice
EmitRequests_Twice(cause) ==
  [i \in 1..Len(listeners) |-> [op |-> "get", view |-> listeners[i], cause |-> cause]]
  \o [i \in 1..Len(listeners) |-> [op |-> "get", view |-> listeners[i], cause |-> cause]]

\* appConfigEmitter.emit(): every listener starts a loadAppConfiguration,
\* which issues its getItem at once
EmitRequests(cause) ==
  [i \in 1..Len(listeners) |-> [op |-> "get", view |-> listeners[i], cause |-> cause]]

\* ------------------------------------------------------------- lifecycle
\* a component using useAppManager mounts: state is initialised, the first
\* effect starts the initial load, the second subscribes to the emitter
Mount(v) ==
  /\ life[v] = "new"
  /\ life' = [life EXCEPT ![v] = "live"]
  /\ rideApps' = [rideApps EXCEPT ![v] = DEFAULT_RIDE_APPS]
  /\ loading' = [loading EXCEPT ![v] = TRUE]
  /\ queue' = Append(queue, [op |-> "get", view |-> v, cause |-> 0])
  /\ listeners' = Append(listeners, v)
  /\ lastEvent' = NoEvent
  /\ UNCHANGED << storage, isResetting, ops, writeLog, loadFailed >>
  /\ UNCHANGED dispVars

\* the component unmounts: the effect's cleanup unsubscribes and the
\* instance's state is gone (a later setState on it has no effect)
Unmount(v) ==
  /\ life[v] = "live"
  /\ life' = [life EXCEPT ![v] = "dead"]
  /\ listeners' = SelectSeq(listeners, LAMBDA l : l # v)
  /\ rideApps' = [rideApps EXCEPT ![v] = DEFAULT_RIDE_APPS]
  /\ loading' = [loading EXCEPT ![v] = TRUE]
  /\ isResetting' = [isResetting EXCEPT ![v] = FALSE]
  /\ loadFailed' = [loadFailed EXCEPT ![v] = FALSE]
  /\ lastEvent' = NoEvent
  /\ UNCHANGED << storage, queue, ops, writeLog >>
  /\ UNCHANGED dispVars

\* ------------------------------------------------------------- mutations
\* mutant: the change event is emitted before the write is awaited
saveAppConfiguration_EmitFirst(v, newConfig, kind, appId) ==
  queue' = queue \o EmitRequests(ops + 1)
           \o << [op |-> "set", view |-> v, value |-> newConfig,
                  kind |-> kind, appId |-> appId,
                  base |-> rideApps[v], wid |-> ops + 1] >>

\* saveAppConfiguration up to its await: the setItem request is issued
saveAppConfiguration(v, newConfig, kind, appId) ==
  queue' = Append(queue, [op |-> "set", view |-> v, value |-> newConfig,
                          kind |-> kind, appId |-> appId,
                          base |-> rideApps[v], wid |-> ops + 1])

\* mutant: the new list is built from the defaults, not from the current list
ToggledApps_FromDefaults(apps, appId) ==
  [i \in 1..Len(apps) |->
     IF apps[i].id = appId THEN [apps[i] EXCEPT !.enabled = ~apps[i].enabled]
     ELSE DEFAULT_RIDE_APPS[i]]

\* mutant: the toggled provider is taken out and appended at the end
ToggledApps_MoveToEnd(apps, appId) ==
  SelectSeq(apps, LAMBDA app : app.id # appId)
  \o [i \in 1..Cardinality({j \in 1..Len(apps) : apps[j].id = appId}) |->
        LET app == apps[CHOOSE j \in 1..Len(apps) : apps[j].id = appId]
        IN  [app EXCEPT !.enabled = ~app.enabled]]

\* rideApps.map(app => app.id === appId ? {...app, enabled: !app.enabled} : app)
ToggledApps(apps, appId) ==
  [i \in 1..Len(apps) |->
     IF apps[i].id = appId THEN [apps[i] EXCEPT !.enabled = ~apps[i].enabled]
     ELSE apps[i]]

\* toggleAppEnabled, called by the Switch of AppManagerModal (disabled while
\* loading)
toggleAppEnabled(v, appId) ==
  /\ life[v] = "live"
  /\ ~loading[v]
  /\ ops < MaxOps
  /\ saveAppConfiguration(v, ToggledApps(rideApps[v], appId), "toggle", appId)
  /\ ops' = ops + 1
  /\ lastEvent' = NoEvent
  /\ UNCHANGED << storage, listeners, life, rideApps, loading, isResetting,
                  writeLog, loadFailed >>
  /\ UNCHANGED dispVars

\* mutant: the reset saves the current list instead of the defaults
resetToDefaults_SavesCurrent(v) ==
  /\ life[v] = "live"
  /\ ~isResetting[v]
  /\ ops < MaxOps
  /\ isResetting' = [isResetting EXCEPT ![v] = TRUE]
  /\ saveAppConfiguration(v, rideApps[v], "reset", "")
  /\ ops' = ops + 1
  /\ lastEvent' = NoEvent
  /\ UNCHANGED << storage, listeners, life, rideApps, loading, writeLog,
                  loadFailed >>
  /\ UNCHANGED dispVars

\* resetToDefaults, called by the confirmed reset button of AppManagerModal
\* (disabled while isResetting)
resetToDefaults(v) ==
  /\ life[v] = "live"
  /\ ~isResetting[v]
  /\ ops < MaxOps
  /\ isResetting' = [isResetting EXCEPT ![v] = TRUE]
  /\ saveAppConfiguration(v, DEFAULT_RIDE_APPS, "reset", "")
  /\ ops' = ops + 1
  /\ lastEvent' = NoEvent
  /\ UNCHANGED << storage, listeners, life, rideApps, loading, writeLog,
                  loadFailed >>
  /\ UNCHANGED dispVars

\* a state setter of a hook instance: ignored once the instance is unmounted
SetState(state, v, value) ==
  IF life[v] = "live" THEN [state EXCEPT ![v] = value] ELSE state

\* ------------------------------------------------- storage completions
\* getItem resolves: the rest of loadAppConfiguration runs
GetItemResolves ==
  /\ queue # << >>
  /\ Head(queue).op = "get"
  /\ LET v == Head(queue).view IN
       /\ rideApps' = SetState(rideApps, v, LoadedApps(rideApps[v], storage))
       /\ loading' = SetState(loading, v, FALSE)
       /\ loadFailed' = SetState(loadFailed, v, storage.kind = "corrupt")
       /\ lastEvent' = [type |-> IF storage.kind = "corrupt"
                                  THEN "loadFailed" ELSE "loaded",
                        view |-> v, cause |-> Head(queue).cause,
                        threw |-> FALSE]
  /\ queue' = Tail(queue)
  /\ UNCHANGED << storage, listeners, life, isResetting, ops, writeLog >>
  /\ UNCHANGED dispVars

\* getItem rejects: the catch logs, the finally clears loading
GetItemRejects ==
  /\ queue # << >>
  /\ Head(queue).op = "get"
  /\ LET v == Head(queue).view IN
       /\ loading' = SetState(loading, v, FALSE)
       /\ loadFailed' = SetState(loadFailed, v, TRUE)
       /\ lastEvent' = [type |-> "loadFailed", view |-> v,
                        cause |-> Head(queue).cause, threw |-> FALSE]
  /\ queue' = Tail(queue)
  /\ UNCHANGED << storage, listeners, life, rideApps, isResetting, ops, writeLog >>
  /\ UNCHANGED dispVars

\* setItem resolves: setRideApps(newConfig), emit, then the caller resumes
SetItemResolves ==
  /\ queue # << >>
  /\ Head(queue).op = "set"
  /\ LET w == Head(queue) IN
       /\ storage' = JSONstringify(w.value)
       /\ writeLog' = Append(writeLog, [wid |-> w.wid, kind |-> w.kind,
                                        view |-> w.view, appId |-> w.appId])
       /\ rideApps' = SetState(rideApps, w.view, w.value)
       /\ queue' = Tail(queue) \o EmitRequests(w.wid)
       /\ isResetting' = IF w.kind = "reset"
                         THEN SetState(isResetting, w.view, FALSE)
                         ELSE isResetting
       /\ lastEvent' = [type |-> "saved", view |-> w.view, kind |-> w.kind,
                        appId |-> w.appId, base |-> w.base, wid |-> w.wid,
                        threw |-> FALSE]
  /\ UNCHANGED << listeners, life, loading, ops, loadFailed >>
  /\ UNCHANGED dispVars

\* setItem rejects: saveAppConfiguration rethrows, so does its caller; the
\* handler of the reset button never reaches setIsResetting(false)
SetItemRejects ==
  /\ queue # << >>
  /\ Head(queue).op = "set"
  /\ LET w == Head(queue) IN
       lastEvent' = [type |-> "saveFailed", view |-> w.view, kind |-> w.kind,
                     appId |-> w.appId, base |-> w.base, wid |-> w.wid,
                     threw |-> TRUE]
  /\ queue' = Tail(queue)
  /\ UNCHANGED << storage, listeners, life, rideApps, loading, isResetting,
                  ops, writeLog, loadFailed >>
  /\ UNCHANGED dispVars

\* rideApps.filter(app => app.enabled)
getEnabledApps(v) == SelectSeq(rideApps[v], LAMBDA app : app.enabled)

\* ================================================= dispatch (useRideApps)
\* number of dispatch attempts in one behaviour
MaxDispatches == 1

\* -------------------------------------------------------------- strings
Alnum ==
  {"a","b","c","d","e","f","g","h","i","j","k","l","m","n","o","p","q","r","s",
   "t","u","v","w","x","y","z","A","B","C","D","E","F","G","H","I","J","K","L",
   "M","N","O","P","Q","R","S","T","U","V","W","X","Y","Z",
   "0","1","2","3","4","5","6","7","8","9"}

\* %XX of an ASCII character that is not alphanumeric
PercentCode(c) ==
  CASE c = " " -> "%20" [] c = "!" -> "%21" [] c = "#" -> "%23"
    [] c = "$" -> "%24" [] c = "%" -> "%25" [] c = "&" -> "%26"
    [] c = "'" -> "%27" [] c = "(" -> "%28" [] c = ")" -> "%29"
    [] c = "*" -> "%2A" [] c = "+" -> "%2B" [] c = "," -> "%2C"
    [] c = "-" -> "%2D" [] c = "." -> "%2E" [] c = "/" -> "%2F"
    [] c = ":" -> "%3A" [] c = ";" -> "%3B" [] c = "<" -> "%3C"
    [] c = "=" -> "%3D" [] c = ">" -> "%3E" [] c = "?" -> "%3F"
    [] c = "@" -> "%40" [] c = "[" -> "%5B" [] c = "]" -> "%5D"
    [] c = "^" -> "%5E" [] c = "_" -> "%5F"
    [] c = "{" -> "%7B" [] c = "|" -> "%7C" [] c = "}" -> "%7D"
    [] c = "~" -> "%7E"

\* mutant: the text is interpolated as it is, nothing is escaped
encodeURIComponent_Raw(str) == str

\* encodeURIComponent: everything but A-Z a-z 0-9 - _ . ! ~ * ' ( ) is escaped
RECURSIVE encodeURIComponent(_)
encodeURIComponent(str) ==
  IF str = "" THEN ""
  ELSE LET c == SubSeq(str, 1, 1)
       IN  (IF c \in Alnum \cup {"-", "_", ".", "!", "~", "*", "'", "(", ")"}
            THEN c ELSE PercentCode(c))
           \o encodeURIComponent(SubSeq(str, 2, Len(str)))

\* the application/x-www-form-urlencoded serialiser of URLSearchParams:
\* everything but A-Z a-z 0-9 * - . _ is escaped, a space becomes +
RECURSIVE FormEncode(_)
FormEncode(str) ==
  IF str = "" THEN ""
  ELSE LET c == SubSeq(str, 1, 1)
       IN  (IF c \in Alnum \cup {"*", "-", ".", "_"} THEN c
            ELSE IF c = " " THEN "+" ELSE PercentCode(c))
           \o FormEncode(SubSeq(str, 2, Len(str)))

\* URLSearchParams.toString() of the appended name/value pairs
RECURSIVE URLSearchParamsToString(_)
URLSearchParamsToString(params) ==
  IF params = << >> THEN ""
  ELSE FormEncode(params[1][1]) \o "=" \o FormEncode(params[1][2])
       \o (IF Len(params) > 1 THEN "&" ELSE "")
       \o URLSearchParamsToString(Tail(params))

\* str.trim() is empty
RECURSIVE Blank(_)
Blank(str) ==
  \/ str = ""
  \/ SubSeq(str, 1, 1) = " " /\ Blank(SubSeq(str, 2, Len(str)))

\* str.replace(search, replacement) for a search string that str starts with
\* or does not contain
ReplacePrefix(str, search, replacement) ==
  IF Len(str) >= Len(search) /\ SubSeq(str, 1, Len(search)) = search
  THEN replacement \o SubSeq(str, Len(search) + 1, Len(str))
  ELSE str

\* -------------------------------------------------------------- numbers
\* A coordinate is a whole number of ten-thousandths of a degree; an optional
\* number is << >> (undefined) or << n >>.
RECURSIVE Digits(_)
Digits(n) ==
  LET d == SubSeq("0123456789", (n % 10) + 1, (n % 10) + 1)
  IN  IF n < 10 THEN d ELSE Digits(n \div 10) \o d

\* the last width decimal digits of f, leading zeros kept
RECURSIVE Padded(_, _)
Padded(f, width) ==
  IF width = 0 THEN "" ELSE Padded(f \div 10, width - 1) \o Digits(f % 10)

\* the fraction digits of f # 0 (width digits), without trailing zeros
RECURSIVE FractionDigits(_, _)
FractionDigits(f, width) ==
  IF f % 10 = 0 THEN FractionDigits(f \div 10, width - 1)
  ELSE Padded(f, width)

\* Number.prototype.toString of n / 10000
NumberToString(n) ==
  LET a == IF n < 0 THEN -n ELSE n
  IN  (IF n < 0 THEN "-" ELSE "")
      \o Digits(a \div 10000)
      \o (IF a % 10000 = 0 THEN "" ELSE "." \o FractionDigits(a % 10000, 4))

\* `${x}` of an optional number
Interpolate(x) == IF x = << >> THEN "undefined" ELSE NumberToString(x[1])

\* the truthiness of an optional number
Truthy(x) == x # << >> /\ x[1] # 0

\* ----------------------------------------------------------- the route
LocationData(address, latitude, longitude) ==
  [address |-> address, latitude |-> latitude, longitude |-> longitude]

\* ------------------------------------------------------ createDeepLink
\* mutant: the pickup address is read from the screen's state instead of the
\* argument
createDeepLink_ReadsScreen(app, pickup, destination) ==
  LET pickupAddress_      == encodeURIComponent(pickupAddress)
      destinationAddress_ == encodeURIComponent(destination.address)
      latO == Interpolate(pickup.latitude)
      lngO == Interpolate(pickup.longitude)
      latD == Interpolate(destination.latitude)
      lngD == Interpolate(destination.longitude)
      uberParams ==
        << <<"action", "setPickup">>,
           <<"pickup[formatted_address]", pickupAddress>>,
           <<"dropoff[formatted_address]", destination.address>> >>
        \o (IF Truthy(pickup.latitude) /\ Truthy(pickup.longitude)
            THEN << <<"pickup[latitude]", latO>>, <<"pickup[longitude]", lngO>> >>
            ELSE << >>)
        \o (IF Truthy(destination.latitude) /\ Truthy(destination.longitude)
            THEN << <<"dropoff[latitude]", latD>>, <<"dropoff[longitude]", lngD>> >>
            ELSE << >>)
  IN  CASE app.id = "uber" ->
             IF platformOS # "web"
             THEN "uber://?action=setPickup&pickup[formatted_address]="
                  \o pickupAddress_ \o "&dropoff[formatted_address]="
                  \o destinationAddress_
             ELSE "https://m.uber.com/ul/?" \o URLSearchParamsToString(uberParams)
        [] app.id = "99" ->
             "taxis99://call?pickup_latitude=" \o latO
             \o "&pickup_longitude=" \o lngO
             \o "&pickup_title=" \o pickupAddress_
             \o "&dropoff_latitude=" \o latD
             \o "&dropoff_longitude=" \o lngD
             \o "&dropoff_title=" \o destinationAddress_
        [] app.id = "taxirio" -> "br.gov.rj.taxi.rio.passenger://ride"
        [] app.id = "indriver" -> "indriver://open"
        [] app.id = "lyft" ->
             "lyft://ridetype?id=lyft&pickup[latitude]=" \o latO
             \o "&pickup[longitude]=" \o lngO
             \o "&destination[latitude]=" \o latD
             \o "&destination[longitude]=" \o lngD
        [] app.id = "bolt" ->
             "bolt://ride?pickup_lat=" \o latO \o "&pickup_lng=" \o lngO
             \o "&destination_lat=" \o latD \o "&destination_lng=" \o lngD
        [] app.id = "grab" ->
             "grab://open?screenType=BOOK&type=TRANSPORT&pickup.latitude=" \o latO
             \o "&pickup.longitude=" \o lngO
             \o "&dropoff.latitude=" \o latD
             \o "&dropoff.longitude=" \o lngD
        [] app.id = "careem" ->
             "careem://ride?pickup_latitude=" \o latO
             \o "&pickup_longitude=" \o lngO
             \o "&dropoff_latitude=" \o latD
             \o "&dropoff_longitude=" \o lngD
        [] app.id = "ola" ->
             "olacabs://app/setpickup?lat=" \o latO \o "&lng=" \o lngO
             \o "&drop_lat=" \o latD \o "&drop_lng=" \o lngD
        [] app.id = "yandex" ->
             "yandextaxi://route?start-lat=" \o latO \o "&start-lon=" \o lngO
             \o "&end-lat=" \o latD \o "&end-lon=" \o lngD
        [] OTHER -> ""

\* mutant: the 99 link carries the pickup longitude as pickup_latitude and
\* the pickup latitude as pickup_longitude
createDeepLink_SwappedCoords(app, pickup, destination) ==
  LET pickupAddress_      == encodeURIComponent(pickup.address)
      destinationAddress_ == encodeURIComponent(destination.address)
      latO == Interpolate(pickup.latitude)
      lngO == Interpolate(pickup.longitude)
      latD == Interpolate(destination.latitude)
      lngD == Interpolate(destination.longitude)
      uberParams ==
        << <<"action", "setPickup">>,
           <<"pickup[formatted_address]", pickup.address>>,
           <<"dropoff[formatted_address]", destination.address>> >>
        \o (IF Truthy(pickup.latitude) /\ Truthy(pickup.longitude)
            THEN << <<"pickup[latitude]", latO>>, <<"pickup[longitude]", lngO>> >>
            ELSE << >>)
        \o (IF Truthy(destination.latitude) /\ Truthy(destination.longitude)
            THEN << <<"dropoff[latitude]", latD>>, <<"dropoff[longitude]", lngD>> >>
            ELSE << >>)
  IN  CASE app.id = "uber" ->
             IF platformOS # "web"
             THEN "uber://?action=setPickup&pickup[formatted_address]="
                  \o pickupAddress_ \o "&dropoff[formatted_address]="
                  \o destinationAddress_
             ELSE "https://m.uber.com/ul/?" \o URLSearchParamsToString(uberParams)
        [] app.id = "99" ->
             "taxis99://call?pickup_latitude=" \o lngO
             \o "&pickup_longitude=" \o latO
             \o "&pickup_title=" \o pickupAddress_
             \o "&dropoff_latitude=" \o latD
             \o "&dropoff_longitude=" \o lngD
             \o "&dropoff_title=" \o destinationAddress_
        [] app.id = "taxirio" -> "br.gov.rj.taxi.rio.passenger://ride"
        [] app.id = "indriver" -> "indriver://open"
        [] app.id = "lyft" ->
             "lyft://ridetype?id=lyft&pickup[latitude]=" \o latO
             \o "&pickup[longitude]=" \o lngO
             \o "&destination[latitude]=" \o latD
             \o "&destination[longitude]=" \o lngD
        [] app.id = "bolt" ->
             "bolt://ride?pickup_lat=" \o latO \o "&pickup_lng=" \o lngO
             \o "&destination_lat=" \o latD \o "&destination_lng=" \o lngD
        [] app.id = "grab" ->
             "grab://open?screenType=BOOK&type=TRANSPORT&pickup.latitude=" \o latO
             \o "&pickup.longitude=" \o lngO
             \o "&dropoff.latitude=" \o latD
             \o "&dropoff.longitude=" \o lngD
        [] app.id = "careem" ->
             "careem://ride?pickup_latitude=" \o latO
             \o "&pickup_longitude=" \o lngO
             \o "&dropoff_latitude=" \o latD
             \o "&dropoff_longitude=" \o lngD
        [] app.id = "ola" ->
             "olacabs://app/setpickup?lat=" \o latO \o "&lng=" \o lngO
             \o "&drop_lat=" \o latD \o "&drop_lng=" \o lngD
        [] app.id = "yandex" ->
             "yandextaxi://route?start-lat=" \o latO \o "&start-lon=" \o lngO
             \o "&end-lat=" \o latD \o "&end-lon=" \o lngD
        [] OTHER -> ""

\* mutant: the indriver link carries the destination address
createDeepLink_IndriverRoute(app, pickup, destination) ==
  LET pickupAddress_      == encodeURIComponent(pickup.address)
      destinationAddress_ == encodeURIComponent(destination.address)
      latO == Interpolate(pickup.latitude)
      lngO == Interpolate(pickup.longitude)
      latD == Interpolate(destination.latitude)
      lngD == Interpolate(destination.longitude)
      uberParams ==
        << <<"action", "setPickup">>,
           <<"pickup[formatted_address]", pickup.address>>,
           <<"dropoff[formatted_address]", destination.address>> >>
        \o (IF Truthy(pickup.latitude) /\ Truthy(pickup.longitude)
            THEN << <<"pickup[latitude]", latO>>, <<"pickup[longitude]", lngO>> >>
            ELSE << >>)
        \o (IF Truthy(destination.latitude) /\ Truthy(destination.longitude)
            THEN << <<"dropoff[latitude]", latD>>, <<"dropoff[longitude]", lngD>> >>
            ELSE << >>)
  IN  CASE app.id = "uber" ->
             IF platformOS # "web"
             THEN "uber://?action=setPickup&pickup[formatted_address]="
                  \o pickupAddress_ \o "&dropoff[formatted_address]="
                  \o destinationAddress_
             ELSE "https://m.uber.com/ul/?" \o URLSearchParamsToString(uberParams)
        [] app.id = "99" ->
             "taxis99://call?pickup_latitude=" \o latO
             \o "&pickup_longitude=" \o lngO
             \o "&pickup_title=" \o pickupAddress_
             \o "&dropoff_latitude=" \o latD
             \o "&dropoff_longitude=" \o lngD
             \o "&dropoff_title=" \o destinationAddress_
        [] app.id = "taxirio" -> "br.gov.rj.taxi.rio.passenger://ride"
        [] app.id = "indriver" -> "indriver://open?to=" \o destinationAddress_
        [] app.id = "lyft" ->
             "lyft://ridetype?id=lyft&pickup[latitude]=" \o latO
             \o "&pickup[longitude]=" \o lngO
             \o "&destination[latitude]=" \o latD
             \o "&destination[longitude]=" \o lngD
        [] app.id = "bolt" ->
             "bolt://ride?pickup_lat=" \o latO \o "&pickup_lng=" \o lngO
             \o "&destination_lat=" \o latD \o "&destination_lng=" \o lngD
        [] app.id = "grab" ->
             "grab://open?screenType=BOOK&type=TRANSPORT&pickup.latitude=" \o latO
             \o "&pickup.longitude=" \o lngO
             \o "&dropoff.latitude=" \o latD
             \o "&dropoff.longitude=" \o lngD
        [] app.id = "careem" ->
             "careem://ride?pickup_latitude=" \o latO
             \o "&pickup_longitude=" \o lngO
             \o "&dropoff_latitude=" \o latD
             \o "&dropoff_longitude=" \o lngD
        [] app.id = "ola" ->
             "olacabs://app/setpickup?lat=" \o latO \o "&lng=" \o lngO
             \o "&drop_lat=" \o latD \o "&drop_lng=" \o lngD
        [] app.id = "yandex" ->
             "yandextaxi://route?start-lat=" \o latO \o "&start-lon=" \o lngO
             \o "&end-lat=" \o latD \o "&end-lon=" \o lngD
        [] OTHER -> ""

\* createDeepLink(app, pickup, destination)
createDeepLink(app, pickup, destination) ==
  LET pickupAddress_      == encodeURIComponent(pickup.address)
      destinationAddress_ == encodeURIComponent(destination.address)
      latO == Interpolate(pickup.latitude)
      lngO == Interpolate(pickup.longitude)
      latD == Interpolate(destination.latitude)
      lngD == Interpolate(destination.longitude)
      uberParams ==
        << <<"action", "setPickup">>,
           <<"pickup[formatted_address]", pickup.address>>,
           <<"dropoff[formatted_address]", destination.address>> >>
        \o (IF Truthy(pickup.latitude) /\ Truthy(pickup.longitude)
            THEN << <<"pickup[latitude]", latO>>, <<"pickup[longitude]", lngO>> >>
            ELSE << >>)
        \o (IF Truthy(destination.latitude) /\ Truthy(destination.longitude)
            THEN << <<"dropoff[latitude]", latD>>, <<"dropoff[longitude]", lngD>> >>
            ELSE << >>)
  IN  CASE app.id = "uber" ->
             IF platformOS # "web"
             THEN "uber://?action=setPickup&pickup[formatted_address]="
                  \o pickupAddress_ \o "&dropoff[formatted_address]="
                  \o destinationAddress_
             ELSE "https://m.uber.com/ul/?" \o URLSearchParamsToString(uberParams)
        [] app.id = "99" ->
             "taxis99://call?pickup_latitude=" \o latO
             \o "&pickup_longitude=" \o lngO
             \o "&pickup_title=" \o pickupAddress_
             \o "&dropoff_latitude=" \o latD
             \o "&dropoff_longitude=" \o lngD
             \o "&dropoff_title=" \o destinationAddress_
        [] app.id = "taxirio" -> "br.gov.rj.taxi.rio.passenger://ride"
        [] app.id = "indriver" -> "indriver://open"
        [] app.id = "lyft" ->
             "lyft://ridetype?id=lyft&pickup[latitude]=" \o latO
             \o "&pickup[longitude]=" \o lngO
             \o "&destination[latitude]=" \o latD
             \o "&destination[longitude]=" \o lngD
        [] app.id = "bolt" ->
             "bolt://ride?pickup_lat=" \o latO \o "&pickup_lng=" \o lngO
             \o "&destination_lat=" \o latD \o "&destination_lng=" \o lngD
        [] app.id = "grab" ->
             "grab://open?screenType=BOOK&type=TRANSPORT&pickup.latitude=" \o latO
             \o "&pickup.longitude=" \o lngO
             \o "&dropoff.latitude=" \o latD
             \o "&dropoff.longitude=" \o lngD
        [] app.id = "careem" ->
             "careem://ride?pickup_latitude=" \o latO
             \o "&pickup_longitude=" \o lngO
             \o "&dropoff_latitude=" \o latD
             \o "&dropoff_longitude=" \o lngD
        [] app.id = "ola" ->
             "olacabs://app/setpickup?lat=" \o latO \o "&lng=" \o lngO
             \o "&drop_lat=" \o latD \o "&drop_lng=" \o lngD
        [] app.id = "yandex" ->
             "yandextaxi://route?start-lat=" \o latO \o "&start-lon=" \o lngO
             \o "&end-lat=" \o latD \o "&end-lon=" \o lngD
        [] OTHER -> ""

\* ------------------------------------------------------- screen inputs
Coords(latitude, longitude) == [latitude |-> latitude, longitude |-> longitude]

\* what the address inputs and the auto-fill hand to the screen: an address
\* and, when the place was resolved, its coordinates
PickupSelections ==
  { << "", << >> >>,
    << " ", << Coords(-229068, -431729) >> >>,
    << "Av B, 2", << >> >>,
    << "Av B, 2", << Coords(-229068, -431729) >> >> }

DestinationSelections ==
  { << "", << >> >>,
    << " ", << Coords(-229249, -431777) >> >>,
    << "Av B, 2", << >> >>,
    << "Av B, 2", << Coords(-229249, -431777) >> >> }

\* setPickupAddress(address); setPickupCoords(coordinates || null)
handlePickupPlaceSelected(address, coordinates) ==
  /\ pickupAddress' = address
  /\ pickupCoords' = coordinates
  /\ UNCHANGED << platformOS, destinationAddress, destinationCoords, isLoading,
                  pc, call, calls, alerts, timers, outcome, dispatches >>
  /\ UNCHANGED regVars

\* setDestinationAddress(address); setDestinationCoords(coordinates || null)
handleDestinationPlaceSelected(address, coordinates) ==
  /\ destinationAddress' = address
  /\ destinationCoords' = coordinates
  /\ UNCHANGED << platformOS, pickupAddress, pickupCoords, isLoading,
                  pc, call, calls, alerts, timers, outcome, dispatches >>
  /\ UNCHANGED regVars

\* ----------------------------------------------------------- openRideApp
NoCall == [via |-> "none"]

\* An alert on screen. d is the dispatch attempt that raised it and answer
\* the button the user pressed ("" while the alert is open).
AlertOf(kind, buttons, app, pickup, destination, d) ==
  [kind |-> kind, buttons |-> buttons, appId |-> app.id,
   playStoreUrl |-> app.playStoreUrl,
   pickup |-> pickup.address, destination |-> destination.address,
   d |-> d, answer |-> ""]

\* an alert that names neither a provider nor a route
PlainAlert(kind, d) ==
  [kind |-> kind, buttons |-> << "ok" >>, appId |-> "", playStoreUrl |-> "",
   pickup |-> "", destination |-> "", d |-> d, answer |-> ""]

\* a builder or platform call, made by openRideApp or by a button the user
\* pressed, for dispatch attempt d
Made(fn, arg, d, by) == [fn |-> fn, arg |-> arg, d |-> d, by |-> by]

StoreButtons == << "cancel", "openPlayStore" >>

\* the providers whose confirmation prompt is scheduled after a successful open
PrefillApps == {"uber", "99", "lyft", "bolt", "grab", "careem", "ola", "yandex"}

\* mutant: no finally block, isLoading stays as it is when the invocation ends
Finish_KeepsLoading(result) ==
  /\ isLoading' = isLoading
  /\ pc' = "idle"
  /\ outcome' = result

\* the finally block: setIsLoading(false); the invocation is over
Finish(result) ==
  /\ isLoading' = FALSE
  /\ pc' = "idle"
  /\ outcome' = result

\* mutant: no special handling of the web platform, every runtime takes the
\* canOpenURL path
openRideApp_NoWebBranch(app, pickup, destination, via) ==
  /\ dispatches < MaxDispatches
  /\ dispatches' = dispatches + 1
  /\ LET deepLink == createDeepLink(app, pickup, destination)
         d == dispatches + 1
         built == << Made("createDeepLink", app.id, d, "openRideApp") >>
     IN  /\ call' = [app |-> app, pickup |-> pickup, destination |-> destination,
                     deepLink |-> deepLink, via |-> via, canOpen |-> "unasked",
                     threw |-> "none", d |-> d]
         /\ IF FALSE
            THEN IF app.id = "uber"
                 THEN /\ isLoading' = TRUE
                      /\ pc' = "openBrowserAsync"
                      /\ outcome' = "pending"
                      /\ calls' = Append(built,
                            Made("WebBrowser.openBrowserAsync", deepLink, d,
                                 "openRideApp"))
                      /\ UNCHANGED alerts
                 ELSE /\ alerts' = Append(alerts,
                            AlertOf("webNotSupported", StoreButtons, app,
                                    pickup, destination, d))
                      /\ calls' = built
                      /\ Finish("unsupportedOnPlatform")
            ELSE /\ isLoading' = TRUE
                 /\ pc' = "canOpenURL"
                 /\ outcome' = "pending"
                 /\ calls' = Append(built,
                       Made("Linking.canOpenURL", deepLink, d, "openRideApp"))
                 /\ UNCHANGED alerts
  /\ UNCHANGED << platformOS, pickupAddress, pickupCoords, destinationAddress,
                  destinationCoords, timers >>
  /\ UNCHANGED regVars

\* mutant: on web the store listing of an unsupported provider is opened at
\* once, without waiting for the user's choice
openRideApp_WebOpensStore(app, pickup, destination, via) ==
  /\ dispatches < MaxDispatches
  /\ dispatches' = dispatches + 1
  /\ LET deepLink == createDeepLink(app, pickup, destination)
         d == dispatches + 1
         built == << Made("createDeepLink", app.id, d, "openRideApp") >>
     IN  /\ call' = [app |-> app, pickup |-> pickup, destination |-> destination,
                     deepLink |-> deepLink, via |-> via, canOpen |-> "unasked",
                     threw |-> "none", d |-> d]
         /\ IF platformOS = "web"
            THEN IF app.id = "uber"
                 THEN /\ isLoading' = TRUE
                      /\ pc' = "openBrowserAsync"
                      /\ outcome' = "pending"
                      /\ calls' = Append(built,
                            Made("WebBrowser.openBrowserAsync", deepLink, d,
                                 "openRideApp"))
                      /\ UNCHANGED alerts
                 ELSE /\ alerts' = Append(alerts,
                            AlertOf("webNotSupported", StoreButtons, app,
                                    pickup, destination, d))
                      /\ calls' = Append(built,
                            Made("window.open",
                                 ReplacePrefix(app.playStoreUrl, "market://",
                                     "https://play.google.com/store/apps/"),
                                 d, "openRideApp"))
                      /\ Finish("unsupportedOnPlatform")
            ELSE /\ isLoading' = TRUE
                 /\ pc' = "canOpenURL"
                 /\ outcome' = "pending"
                 /\ calls' = Append(built,
                       Made("Linking.canOpenURL", deepLink, d, "openRideApp"))
                 /\ UNCHANGED alerts
  /\ UNCHANGED << platformOS, pickupAddress, pickupCoords, destinationAddress,
                  destinationCoords, timers >>
  /\ UNCHANGED regVars

\* openRideApp from its entry to its first await (or to its end when it
\* awaits nothing)
openRideApp(app, pickup, destination, via) ==
  /\ dispatches < MaxDispatches
  /\ dispatches' = dispatches + 1
  /\ LET deepLink == createDeepLink(app, pickup, destination)
         d == dispatches + 1
         built == << Made("createDeepLink", app.id, d, "openRideApp") >>
     IN  /\ call' = [app |-> app, pickup |-> pickup, destination |-> destination,
                     deepLink |-> deepLink, via |-> via, canOpen |-> "unasked",
                     threw |-> "none", d |-> d]
         /\ IF platformOS = "web"
            THEN IF app.id = "uber"
                 THEN /\ isLoading' = TRUE
                      /\ pc' = "openBrowserAsync"
                      /\ outcome' = "pending"
                      /\ calls' = Append(built,
                            Made("WebBrowser.openBrowserAsync", deepLink, d,
                                 "openRideApp"))
                      /\ UNCHANGED alerts
                 ELSE /\ alerts' = Append(alerts,
                            AlertOf("webNotSupported", StoreButtons, app,
                                    pickup, destination, d))
                      /\ calls' = built
                      /\ Finish("unsupportedOnPlatform")
            ELSE /\ isLoading' = TRUE
                 /\ pc' = "canOpenURL"
                 /\ outcome' = "pending"
                 /\ calls' = Append(built,
                       Made("Linking.canOpenURL", deepLink, d, "openRideApp"))
                 /\ UNCHANGED alerts
  /\ UNCHANGED << platformOS, pickupAddress, pickupCoords, destinationAddress,
                  destinationCoords, timers >>
  /\ UNCHANGED regVars

\* mutant: the answer of canOpenURL is not looked at, the link is opened
CanOpenURLResolves_IgnoresAnswer(canOpen) ==
  /\ pc = "canOpenURL"
  /\ call' = [call EXCEPT !.canOpen = IF canOpen THEN "true" ELSE "false"]
  /\ pc' = "openURL"
  /\ calls' = Append(calls, Made("Linking.openURL", call.deepLink,
                                 call.d, "openRideApp"))
  /\ UNCHANGED << isLoading, alerts, outcome >>
  /\ UNCHANGED << platformOS, pickupAddress, pickupCoords, destinationAddress,
                  destinationCoords, timers, dispatches >>
  /\ UNCHANGED regVars

\* mutant: after a positive answer the provider's bare scheme is opened, not
\* the link that was built and queried
CanOpenURLResolves_OpensOtherLink(canOpen) ==
  /\ pc = "canOpenURL"
  /\ IF canOpen
     THEN /\ call' = [call EXCEPT !.canOpen = "true"]
          /\ pc' = "openURL"
          /\ calls' = Append(calls, Made("Linking.openURL",
                                         call.app.deepLinkScheme \o "://",
                                         call.d, "openRideApp"))
          /\ UNCHANGED << isLoading, alerts, outcome >>
     ELSE /\ call' = [call EXCEPT !.canOpen = "false"]
          /\ alerts' = Append(alerts,
                AlertOf("notInstalled", StoreButtons, call.app, call.pickup,
                        call.destination, call.d))
          /\ Finish("notInstalled")
          /\ UNCHANGED calls
  /\ UNCHANGED << platformOS, pickupAddress, pickupCoords, destinationAddress,
                  destinationCoords, timers, dispatches >>
  /\ UNCHANGED regVars

\* Linking.canOpenURL resolves
CanOpenURLResolves(canOpen) ==
  /\ pc = "canOpenURL"
  /\ IF canOpen
     THEN /\ call' = [call EXCEPT !.canOpen = "true"]
          /\ pc' = "openURL"
          /\ calls' = Append(calls, Made("Linking.openURL", call.deepLink,
                                         call.d, "openRideApp"))
          /\ UNCHANGED << isLoading, alerts, outcome >>
     ELSE /\ call' = [call EXCEPT !.canOpen = "false"]
          /\ alerts' = Append(alerts,
                AlertOf("notInstalled", StoreButtons, call.app, call.pickup,
                        call.destination, call.d))
          /\ Finish("notInstalled")
          /\ UNCHANGED calls
  /\ UNCHANGED << platformOS, pickupAddress, pickupCoords, destinationAddress,
                  destinationCoords, timers, dispatches >>
  /\ UNCHANGED regVars

\* mutant: a linking error is not caught locally and ends in the outer catch
LinkingErrorCaught_Generic ==
  /\ alerts' = Append(alerts, PlainAlert("errorOpening", call.d))
  /\ Finish("error")
  /\ UNCHANGED << platformOS, pickupAddress, pickupCoords, destinationAddress,
                  destinationCoords, calls, timers, dispatches >>
  /\ UNCHANGED regVars

\* the catch (linkingError) block: the store prompt
LinkingErrorCaught ==
  /\ alerts' = Append(alerts,
        AlertOf("openingPlayStore", StoreButtons, call.app, call.pickup,
                call.destination, call.d))
  /\ Finish("notInstalled")
  /\ UNCHANGED << platformOS, pickupAddress, pickupCoords, destinationAddress,
                  destinationCoords, calls, timers, dispatches >>
  /\ UNCHANGED regVars

\* Linking.canOpenURL rejects
CanOpenURLRejects ==
  /\ pc = "canOpenURL"
  /\ call' = [call EXCEPT !.canOpen = "threw", !.threw = "Linking.canOpenURL"]
  /\ LinkingErrorCaught

\* mutant: the confirmation prompt is scheduled for every provider
OpenURLResolves_AlwaysSchedules ==
  /\ pc = "openURL"
  /\ timers' = Append(timers, AlertOf("opened", << "ok" >>, call.app,
                                      call.pickup, call.destination, call.d))
  /\ Finish("opened")
  /\ UNCHANGED << platformOS, pickupAddress, pickupCoords, destinationAddress,
                  destinationCoords, call, calls, alerts, dispatches >>
  /\ UNCHANGED regVars

\* Linking.openURL(deepLink) resolves
OpenURLResolves ==
  /\ pc = "openURL"
  /\ timers' = IF call.app.id \in PrefillApps
               THEN Append(timers, AlertOf("opened", << "ok" >>, call.app,
                                           call.pickup, call.destination,
                                           call.d))
               ELSE timers
  /\ Finish("opened")
  /\ UNCHANGED << platformOS, pickupAddress, pickupCoords, destinationAddress,
                  destinationCoords, call, calls, alerts, dispatches >>
  /\ UNCHANGED regVars

\* Linking.openURL(deepLink) rejects
OpenURLRejects ==
  /\ pc = "openURL"
  /\ call' = [call EXCEPT !.threw = "Linking.openURL"]
  /\ LinkingErrorCaught

\* WebBrowser.openBrowserAsync resolves
OpenBrowserResolves ==
  /\ pc = "openBrowserAsync"
  /\ Finish("openedWithWebFallback")
  /\ UNCHANGED << platformOS, pickupAddress, pickupCoords, destinationAddress,
                  destinationCoords, call, calls, alerts, timers, dispatches >>
  /\ UNCHANGED regVars

\* mutant: no outer catch, the rejection of the browser call leaves
\* openRideApp as a rejection of its own promise
OpenBrowserRejects_Propagates ==
  /\ pc = "openBrowserAsync"
  /\ call' = [call EXCEPT !.threw = "WebBrowser.openBrowserAsync"]
  /\ Finish("rejected")
  /\ UNCHANGED << platformOS, pickupAddress, pickupCoords, destinationAddress,
                  destinationCoords, calls, alerts, timers, dispatches >>
  /\ UNCHANGED regVars

\* WebBrowser.openBrowserAsync rejects: the outer catch
OpenBrowserRejects ==
  /\ pc = "openBrowserAsync"
  /\ call' = [call EXCEPT !.threw = "WebBrowser.openBrowserAsync"]
  /\ alerts' = Append(alerts, PlainAlert("errorOpening", call.d))
  /\ Finish("error")
  /\ UNCHANGED << platformOS, pickupAddress, pickupCoords, destinationAddress,
                  destinationCoords, calls, timers, dispatches >>
  /\ UNCHANGED regVars

\* the setTimeout callback of the confirmation prompt runs
TimerFires ==
  /\ timers # << >>
  /\ alerts' = Append(alerts, Head(timers))
  /\ timers' = Tail(timers)
  /\ UNCHANGED << platformOS, pickupAddress, pickupCoords, destinationAddress,
                  destinationCoords, isLoading, pc, call, calls, outcome,
                  dispatches >>
  /\ UNCHANGED regVars

\* the user presses a button of an alert; 'open store' runs its onPress
PressAlertButton(i, button) ==
  /\ i \in 1..Len(alerts)
  /\ alerts[i].answer = ""
  /\ \E b \in 1..Len(alerts[i].buttons) : alerts[i].buttons[b] = button
  /\ alerts' = [alerts EXCEPT ![i].answer = button]
  /\ calls' =
       IF button # "openPlayStore" THEN calls
       ELSE IF alerts[i].kind = "webNotSupported"
       THEN Append(calls, Made("window.open",
              ReplacePrefix(alerts[i].playStoreUrl, "market://",
                            "https://play.google.com/store/apps/"),
              alerts[i].d, "user"))
       ELSE Append(calls, Made("Linking.openURL", alerts[i].playStoreUrl,
                               alerts[i].d, "user"))
  /\ UNCHANGED << platformOS, pickupAddress, pickupCoords, destinationAddress,
                  destinationCoords, isLoading, pc, call, timers, outcome,
                  dispatches >>
  /\ UNCHANGED regVars

\* the Linking.openURL(app.playStoreUrl) of an 'open store' button rejects:
\* the button's onPress drops the promise, so nothing catches the rejection
StoreOpenRejects(k) ==
  /\ k \in DOMAIN calls
  /\ calls[k].by = "user"
  /\ calls[k].fn = "Linking.openURL"
  /\ \A j \in DOMAIN calls :
       ~(calls[j].fn = "unhandledRejection" /\ calls[j].d = calls[k].d)
  /\ calls' = Append(calls, Made("unhandledRejection", calls[k].arg,
                                 calls[k].d, "user"))
  /\ UNCHANGED << platformOS, pickupAddress, pickupCoords, destinationAddress,
                  destinationCoords, isLoading, pc, call, alerts, timers,
                  outcome, dispatches >>
  /\ UNCHANGED regVars

\* ------------------------------------------------- the screen's handler
\* useRideApps: allApps.filter(app => app.enabled) of its useAppManager
\* instance
EnabledRideApps == SelectSeq(rideApps["screen"], LAMBDA app : app.enabled)

\* a validation alert of handleRideAppPress: the attempt ends there; call
\* keeps what the handler saw
Refuse(kind) ==
  /\ dispatches < MaxDispatches
  /\ dispatches' = dispatches + 1
  /\ alerts' = Append(alerts, PlainAlert(kind, dispatches + 1))
  /\ outcome' = "error"
  /\ call' = [via |-> "refused", message |-> kind, d |-> dispatches + 1,
              pickupAddress |-> pickupAddress, pickupCoords |-> pickupCoords,
              destinationAddress |-> destinationAddress,
              destinationCoords |-> destinationCoords]
  /\ calls' = << >>
  /\ UNCHANGED << platformOS, pickupAddress, pickupCoords, destinationAddress,
                  destinationCoords, isLoading, pc, timers >>
  /\ UNCHANGED regVars

\* mutant: the addresses are tested without trim()
handleRideAppPress_NoTrim(appIndex) ==
  IF pickupAddress = "" \/ destinationAddress = ""
  THEN Refuse("requiredAddresses")
  ELSE IF pickupCoords = << >> \/ destinationCoords = << >>
  THEN Refuse("coordinatesRequired")
  ELSE openRideApp(EnabledRideApps[appIndex],
                   LocationData(pickupAddress, << pickupCoords[1].latitude >>,
                                << pickupCoords[1].longitude >>),
                   LocationData(destinationAddress,
                                << destinationCoords[1].latitude >>,
                                << destinationCoords[1].longitude >>),
                   "screen")

\* handleRideAppPress(appIndex); appIndex counts from 1 here
handleRideAppPress(appIndex) ==
  IF Blank(pickupAddress) \/ Blank(destinationAddress)
  THEN Refuse("requiredAddresses")
  ELSE IF pickupCoords = << >> \/ destinationCoords = << >>
  THEN Refuse("coordinatesRequired")
  ELSE openRideApp(EnabledRideApps[appIndex],
                   LocationData(pickupAddress, << pickupCoords[1].latitude >>,
                                << pickupCoords[1].longitude >>),
                   LocationData(destinationAddress,
                                << destinationCoords[1].latitude >>,
                                << destinationCoords[1].longitude >>),
                   "screen")

\* mutant: the disabled prop leaves isLoading out
ButtonDisabled_IgnoresLoading ==
  \/ Blank(pickupAddress) \/ Blank(destinationAddress)
  \/ pickupCoords = << >> \/ destinationCoords = << >>

\* the disabled prop the screen gives every RideAppButton
ButtonDisabled ==
  \/ isLoading \/ loading["screen"]
  \/ Blank(pickupAddress) \/ Blank(destinationAddress)
  \/ pickupCoords = << >> \/ destinationCoords = << >>

\* RideAppButton.handlePress: onPress() unless disabled
handlePress(appIndex) ==
  /\ ~ButtonDisabled
  /\ handleRideAppPress(appIndex)

\* the onPress prop run on its own, the way a test of the handler runs it:
\* its checks are exercised without the button's disabled prop in front of
\* them (one invocation at a time)
onPress(appIndex) ==
  /\ pc = "idle"
  /\ handleRideAppPress(appIndex)

\* routes and providers a caller other than the screen hands to openRideApp
DirectRoutes ==
  { << LocationData("Av B, 2", << -229068 >>, << -431729 >>),
       LocationData("Rua C", << -229249 >>, << -431777 >>) >>,
    << LocationData("", << -229068 >>, << -431729 >>),
       LocationData("Rua C", << -229249 >>, << -431777 >>) >>,
    << LocationData("Av B, 2", << -229068 >>, << -431729 >>),
       LocationData("", << -229249 >>, << -431777 >>) >>,
    << LocationData("Av B, 2", << -229068 >>, << >>),
       LocationData("Rua C", << -229249 >>, << -431777 >>) >>,
    << LocationData("Av B, 2", << -229068 >>, << -431729 >>),
       LocationData("Rua C", << >>, << -431777 >>) >> }

DirectApps ==
  { DEFAULT_RIDE_APPS[1],
    App("waze", "Waze", "U+1F698", "#33ccff", "com.waze", TRUE, "waze") }

\* the openRideApp the hook returns, called by some other caller
callOpenRideApp(app, route) ==
  /\ pc = "idle"
  /\ openRideApp(app, route[1], route[2], "direct")

\* --------------------------------------------------------- specification
Init ==
  /\ storage \in InitBlobs
  /\ queue = << >>
  /\ listeners = << >>
  /\ life = [v \in Views |-> "new"]
  /\ rideApps = [v \in Views |-> DEFAULT_RIDE_APPS]
  /\ loading = [v \in Views |-> TRUE]
  /\ isResetting = [v \in Views |-> FALSE]
  /\ ops = 0
  /\ writeLog = << >>
  /\ loadFailed = [v \in Views |-> FALSE]
  /\ lastEvent = NoEvent
  /\ platformOS = "android"
  /\ pickupAddress = ""
  /\ pickupCoords = << >>
  /\ destinationAddress = ""
  /\ destinationCoords = << >>
  /\ isLoading = FALSE
  /\ pc = "idle"
  /\ call = NoCall
  /\ calls = << >>
  /\ alerts = << >>
  /\ timers = << >>
  /\ outcome = "none"
  /\ dispatches = 0

Next ==
  \/ \E v \in Views : Mount(v)
  \/ \E v \in Views : Unmount(v)
  \/ \E appId \in ToggleIds : toggleAppEnabled("modal", appId)
  \/ resetToDefaults("modal")
  \/ GetItemResolves
  \/ GetItemRejects
  \/ SetItemResolves
  \/ SetItemRejects

Spec == Init /\ [][Next]_vars

\* the registry over a store that holds the saved defaults, as a reset
\* leaves it
SavedInit ==
  /\ storage = JSONstringify(DEFAULT_RIDE_APPS)
  /\ queue = << >>
  /\ listeners = << >>
  /\ life = [v \in Views |-> "new"]
  /\ rideApps = [v \in Views |-> DEFAULT_RIDE_APPS]
  /\ loading = [v \in Views |-> TRUE]
  /\ isResetting = [v \in Views |-> FALSE]
  /\ ops = 0
  /\ writeLog = << >>
  /\ loadFailed = [v \in Views |-> FALSE]
  /\ lastEvent = NoEvent
  /\ platformOS = "android"
  /\ pickupAddress = ""
  /\ pickupCoords = << >>
  /\ destinationAddress = ""
  /\ destinationCoords = << >>
  /\ isLoading = FALSE
  /\ pc = "idle"
  /\ call = NoCall
  /\ calls = << >>
  /\ alerts = << >>
  /\ timers = << >>
  /\ outcome = "none"
  /\ dispatches = 0

SavedSpec == SavedInit /\ [][Next]_vars

\* the screen and the orchestrator over a registry that is loaded and at rest
DispatchRegistries ==
  { ToggledApps(ToggledApps(DEFAULT_RIDE_APPS, "lyft"), "indriver") }

DispatchInit ==
  /\ \E apps \in DispatchRegistries :
       /\ rideApps = [v \in Views |-> IF v = "screen" THEN apps
                                       ELSE DEFAULT_RIDE_APPS]
       /\ storage = JSONstringify(apps)
  /\ queue = << >>
  /\ listeners = << "screen" >>
  /\ life = [v \in Views |-> IF v = "screen" THEN "live" ELSE "new"]
  /\ loading = [v \in Views |-> v # "screen"]
  /\ isResetting = [v \in Views |-> FALSE]
  /\ ops = 0
  /\ writeLog = << >>
  /\ loadFailed = [v \in Views |-> FALSE]
  /\ lastEvent = NoEvent
  /\ platformOS \in {"web", "android"}
  /\ pickupAddress = ""
  /\ pickupCoords = << >>
  /\ destinationAddress = ""
  /\ destinationCoords = << >>
  /\ isLoading = FALSE
  /\ pc = "idle"
  /\ call = NoCall
  /\ calls = << >>
  /\ alerts = << >>
  /\ timers = << >>
  /\ outcome = "none"
  /\ dispatches = 0

DispatchNext ==
  \/ \E p \in PickupSelections : handlePickupPlaceSelected(p[1], p[2])
  \/ \E p \in DestinationSelections :
       handleDestinationPlaceSelected(p[1], p[2])
  \/ \E i \in 1..Len(EnabledRideApps) : handlePress(i)
  \/ \E i \in 1..Len(EnabledRideApps) : onPress(i)
  \/ \E app \in DirectApps, route \in DirectRoutes : callOpenRideApp(app, route)
  \/ \E canOpen \in BOOLEAN : CanOpenURLResolves(canOpen)
  \/ CanOpenURLRejects
  \/ OpenURLResolves
  \/ OpenURLRejects
  \/ OpenBrowserResolves
  \/ OpenBrowserRejects
  \/ TimerFires
  \/ \E i \in DOMAIN alerts, b \in {"ok", "cancel", "openPlayStore"} :
       PressAlertButton(i, b)
  \/ \E k \in DOMAIN calls : StoreOpenRejects(k)

DispatchSpec == DispatchInit /\ [][DispatchNext]_vars

\* a platform call that openRideApp awaits returns or throws
PlatformCallSettles ==
  \/ \E canOpen \in BOOLEAN : CanOpenURLResolves(canOpen)
  \/ CanOpenURLRejects
  \/ OpenURLResolves
  \/ OpenURLRejects
  \/ OpenBrowserResolves
  \/ OpenBrowserRejects

\* the orchestrator under a screen whose route is filled in and stays as it
\* is
FilledInit ==
  /\ \E apps \in DispatchRegistries :
       /\ rideApps = [v \in Views |-> IF v = "screen" THEN apps
                                       ELSE DEFAULT_RIDE_APPS]
       /\ storage = JSONstringify(apps)
  /\ queue = << >>
  /\ listeners = << "screen" >>
  /\ life = [v \in Views |-> IF v = "screen" THEN "live" ELSE "new"]
  /\ loading = [v \in Views |-> v # "screen"]
  /\ isResetting = [v \in Views |-> FALSE]
  /\ ops = 0
  /\ writeLog = << >>
  /\ loadFailed = [v \in Views |-> FALSE]
  /\ lastEvent = NoEvent
  /\ platformOS \in {"web", "android"}
  /\ pickupAddress = "Av B, 2"
  /\ pickupCoords = << Coords(-229068, -431729) >>
  /\ destinationAddress = "Av B, 2"
  /\ destinationCoords = << Coords(-229249, -431777) >>
  /\ isLoading = FALSE
  /\ pc = "idle"
  /\ call = NoCall
  /\ calls = << >>
  /\ alerts = << >>
  /\ timers = << >>
  /\ outcome = "none"
  /\ dispatches = 0

FilledNext ==
  \/ \E i \in 1..Len(EnabledRideApps) : handlePress(i)
  \/ \E i \in 1..Len(EnabledRideApps) : onPress(i)
  \/ \E app \in DirectApps, route \in DirectRoutes : callOpenRideApp(app, route)
  \/ PlatformCallSettles
  \/ TimerFires
  \/ \E i \in DOMAIN alerts, b \in {"ok", "cancel", "openPlayStore"} :
       PressAlertButton(i, b)
  \/ \E k \in DOMAIN calls : StoreOpenRejects(k)

\* every platform call that openRideApp awaits settles eventually
DispatchFairSpec ==
  FilledInit /\ [][FilledNext]_vars /\ WF_vars(PlatformCallSettles)

\* ------------------------------------------------- createDeepLink alone
\* the providers createDeepLink is applied to: the catalogue and one id
\* that is not in it
BuildApps ==
  { DEFAULT_RIDE_APPS[i] : i \in 1..Len(DEFAULT_RIDE_APPS) }
    \cup { App("waze", "Waze", "U+1F698", "#33ccff", "com.waze", TRUE, "waze") }

\* the pickup and destination arguments createDeepLink is applied to
BuildPickups ==
  { LocationData("Av B, 2", << -229068 >>, << -431729 >>),
    LocationData("a&b=c #1", << >>, << >>),
    LocationData("Rua C", << 0 >>, << -431729 >>),
    LocationData("", << 5 >>, << 1800000 >>) }

BuildDestinations ==
  { LocationData("Rua C", << -229249 >>, << -431777 >>),
    LocationData("Av B, 2", << -229068 >>, << >>),
    LocationData("x y/z?", << 10000 >>, << -5 >>) }

\* the arguments of one application of createDeepLink, not applied yet
BuildInit ==
  /\ \E apps \in DispatchRegistries :
       /\ rideApps = [v \in Views |-> IF v = "screen" THEN apps
                                       ELSE DEFAULT_RIDE_APPS]
       /\ storage = JSONstringify(apps)
  /\ queue = << >>
  /\ listeners = << "screen" >>
  /\ life = [v \in Views |-> IF v = "screen" THEN "live" ELSE "new"]
  /\ loading = [v \in Views |-> v # "screen"]
  /\ isResetting = [v \in Views |-> FALSE]
  /\ ops = 0
  /\ writeLog = << >>
  /\ loadFailed = [v \in Views |-> FALSE]
  /\ lastEvent = NoEvent
  /\ platformOS \in {"web", "android"}
  /\ pickupAddress = ""
  /\ pickupCoords = << >>
  /\ destinationAddress = ""
  /\ destinationCoords = << >>
  /\ isLoading = FALSE
  /\ pc = "idle"
  /\ \E app \in BuildApps, pickup \in BuildPickups,
        destination \in BuildDestinations :
       call = [via |-> "arguments", app |-> app, pickup |-> pickup,
               destination |-> destination]
  /\ calls = << >>
  /\ alerts = << >>
  /\ timers = << >>
  /\ outcome = "none"
  /\ dispatches = 0

\* const deepLink = createDeepLink(app, pickup, destination)
build ==
  /\ call.via = "arguments"
  /\ call' = [via |-> "build", app |-> call.app, pickup |-> call.pickup,
              destination |-> call.destination,
              deepLink |-> createDeepLink(call.app, call.pickup,
                                          call.destination)]
  /\ UNCHANGED << platformOS, pickupAddress, pickupCoords, destinationAddress,
                  destinationCoords, isLoading, pc, calls, alerts, timers,
                  outcome, dispatches >>
  /\ UNCHANGED regVars

BuildNext == build

BuildSpec == BuildInit /\ [][BuildNext]_vars

\* ------------------------------------------- the producers of endpoints
\* a stored favorite place, or one end of a stored favorite route: latitude
\* and longitude are optional fields, each on its own
Favorite(address, latitude, longitude) ==
  [address |-> address, latitude |-> latitude, longitude |-> longitude]

FavoritePlaces ==
  { Favorite("Casa", << -229249 >>, << -431777 >>),
    Favorite("Casa", << >>, << >>),
    Favorite("Praia", << -229249 >>, << >>),
    Favorite("Praia", << >>, << -431777 >>),
    Favorite("Linha", << 0 >>, << -431777 >>) }

FavoriteRoutes ==
  { << Favorite("Av B, 2", << -229068 >>, << -431729 >>),
       Favorite("Casa", << -229249 >>, << -431777 >>) >>,
    << Favorite("Av B, 2", << -229068 >>, << >>),
       Favorite("Praia", << >>, << -431777 >>) >>,
    << Favorite("Rua C", << >>, << >>),
       Favorite("Linha", << 0 >>, << -431777 >>) >> }

\* mutant: the two fields are copied as they are, a missing one left out
FavoriteCoordinates_Copied(latitude, longitude) ==
  IF latitude = << >> /\ longitude = << >> THEN << >>
  ELSE << [f \in { g \in {"latitude", "longitude"} :
                     IF g = "latitude" THEN latitude # << >>
                     ELSE longitude # << >> } |->
             IF f = "latitude" THEN latitude[1] ELSE longitude[1]] >>

\* x.latitude && x.longitude ? { latitude, longitude } : undefined, then
\* coordinates || null of the auto-fill
FavoriteCoordinates(latitude, longitude) ==
  IF Truthy(latitude) /\ Truthy(longitude)
  THEN << Coords(latitude[1], longitude[1]) >>
  ELSE << >>

\* handleUseFavoritePlace, then the auto-fill effect of the screen it
\* navigates to
handleUseFavoritePlace(favorite) ==
  /\ destinationAddress' = favorite.address
  /\ destinationCoords' =
       FavoriteCoordinates(favorite.latitude, favorite.longitude)
  /\ UNCHANGED << platformOS, pickupAddress, pickupCoords, isLoading,
                  pc, call, calls, alerts, timers, outcome, dispatches >>
  /\ UNCHANGED regVars

\* handleUseRoute, then the auto-fill effect of the screen it navigates to
handleUseRoute(route) ==
  /\ pickupAddress' = route[1].address
  /\ pickupCoords' = FavoriteCoordinates(route[1].latitude, route[1].longitude)
  /\ destinationAddress' = route[2].address
  /\ destinationCoords' =
       FavoriteCoordinates(route[2].latitude, route[2].longitude)
  /\ UNCHANGED << platformOS, isLoading, pc, call, calls, alerts, timers,
                  outcome, dispatches >>
  /\ UNCHANGED regVars

\* what getPlaceDetails returns for the prediction: << >> is null
PlaceDetails ==
  { << >>,
    << [address |-> "Rua C", coordinates |-> Coords(-229068, -431729)] >>,
    << [address |-> "Av B, 2", coordinates |-> Coords(-229249, -431777)] >>,
    << [address |-> "Km 0", coordinates |-> Coords(0, -431777)] >> }

\* handlePredictionPress of the address input of one field
handlePredictionPress(field, description, details) ==
  LET address == IF details # << >> THEN details[1].address ELSE description
      coordinates == IF details # << >> THEN << details[1].coordinates >>
                     ELSE << >>
  IN  IF field = "pickup"
      THEN handlePickupPlaceSelected(address, coordinates)
      ELSE handleDestinationPlaceSelected(address, coordinates)

\* n.toFixed(6) of a coordinate
ToFixed6(n) ==
  LET a == IF n < 0 THEN -n ELSE n
  IN  (IF n < 0 THEN "-" ELSE "") \o Digits(a \div 10000) \o "."
      \o Padded(a % 10000, 4) \o "00"

\* reverseGeocodeLocation(latitude, longitude) of the pickup input: the
\* address found, or the two numbers when none was found
reverseGeocodeLocation(latitude, longitude, found) ==
  handlePickupPlaceSelected(
    IF found # "" THEN found
    ELSE ToFixed6(latitude) \o ", " \o ToFixed6(longitude),
    << Coords(latitude, longitude) >>)

FillNext ==
  \/ \E favorite \in FavoritePlaces : handleUseFavoritePlace(favorite)
  \/ \E route \in FavoriteRoutes : handleUseRoute(route)
  \/ \E field \in {"pickup", "destination"}, details \in PlaceDetails :
       handlePredictionPress(field, "Rua C, Rio", details)
  \/ \E found \in {"", "Av B, 2"} :
       reverseGeocodeLocation(-229068, -431729, found)

FillSpec == DispatchInit /\ [][FillNext]_vars

TypeOK ==
  /\ storage.kind \in {"absent", "corrupt", "json"}
  /\ \A v \in Views : Len(rideApps[v]) = Len(DEFAULT_RIDE_APPS)
  /\ ops \in 0..MaxOps

\* ============================================================ properties
\* ------------------------------------------------------------ registry
\* C1: when loadAppConfiguration has read a stored array O, the view's
\* registry has as many entries as the compiled-in list, with its ids in its
\* order, and each entry's enabled is that of O's (first) record with the id
\* when O has one and the compiled-in default otherwise.
C1_RegistryMerge ==
  \A v \in Views :
    (/\ lastEvent.type = "loaded"
     /\ lastEvent.view = v
     /\ life[v] = "live"
     /\ storage.kind = "json")
    => LET O == storage.value
           R == rideApps[v]
           D == DEFAULT_RIDE_APPS
       IN  /\ Len(R) = Len(D)
           /\ \A i \in DOMAIN D :
                /\ R[i].id = D[i].id
                /\ IF \E k \in DOMAIN O : O[k].id = D[i].id
                   THEN \E k \in DOMAIN O :
                          /\ O[k].id = D[i].id
                          /\ \A j \in 1..(k - 1) : O[j].id # D[i].id
                          /\ R[i].enabled = O[k].enabled
                   ELSE R[i].enabled = D[i].enabled

\* a view has loaded a blob that names a subset of the catalog and an id the
\* catalog does not have: uber is off, grab is on, the rest is default
C1_Witness ==
  /\ lastEvent.type = "loaded"
  /\ life[lastEvent.view] = "live"
  /\ storage = JSONstringify(<< Rec("grab", TRUE), Rec("waze", TRUE),
                                Rec("uber", FALSE) >>)
  /\ ~rideApps[lastEvent.view][1].enabled
  /\ rideApps[lastEvent.view][7].enabled
  /\ rideApps[lastEvent.view][2].enabled
  /\ ~rideApps[lastEvent.view][6].enabled

\* C2: after a load whose read threw or whose blob did not parse, the load
\* has not thrown and the view holds the compiled-in defaults.
C2_LoadFallsBackToDefaults ==
  \A v \in Views :
    (/\ lastEvent.type = "loadFailed"
     /\ lastEvent.view = v
     /\ life[v] = "live")
    => /\ ~lastEvent.threw
       /\ rideApps[v] = DEFAULT_RIDE_APPS

\* C3: when the write of toggle(id), id in the catalog, has succeeded, the
\* persisted value is one record per catalog provider, in which exactly the
\* provider id is flipped against the registry the view held when toggle was
\* called, and the view holds the same list.
C3_ToggleFlipsOne ==
  (/\ lastEvent.type = "saved"
   /\ lastEvent.kind = "toggle"
   /\ \E i \in DOMAIN DEFAULT_RIDE_APPS : DEFAULT_RIDE_APPS[i].id = lastEvent.appId)
  => LET B == lastEvent.base
         D == DEFAULT_RIDE_APPS
         Flipped(list) ==
           /\ Len(list) = Len(D)
           /\ \A i \in DOMAIN D :
                /\ list[i].id = D[i].id
                /\ list[i].enabled = IF D[i].id = lastEvent.appId
                                     THEN ~B[i].enabled ELSE B[i].enabled
     IN  /\ storage.kind = "json"
         /\ Flipped(storage.value)
         /\ life[lastEvent.view] = "live" => Flipped(rideApps[lastEvent.view])

\* bolt has been toggled on from a registry in which grab was already on
C3_Witness ==
  /\ lastEvent.type = "saved"
  /\ lastEvent.kind = "toggle"
  /\ lastEvent.appId = "bolt"
  /\ ~lastEvent.base[6].enabled
  /\ lastEvent.base[7].enabled
  /\ storage.value[6].enabled
  /\ storage.value[7].enabled

\* C4: getEnabledApps of a live view is exactly the providers whose flag is
\* on, in the order of the compiled-in catalog.
C4_EnabledOrder ==
  \A v \in Views :
    life[v] = "live"
    => LET E == getEnabledApps(v)
           R == rideApps[v]
           D == DEFAULT_RIDE_APPS
       IN  /\ \A k \in DOMAIN E : E[k].enabled
           /\ \A i \in DOMAIN R : R[i].enabled => \E k \in DOMAIN E : E[k] = R[i]
           /\ \A k, l \in DOMAIN E :
                k < l => \E i, j \in DOMAIN D :
                           i < j /\ D[i].id = E[k].id /\ D[j].id = E[l].id

\* bolt has just been switched on while grab was on: bolt comes right before
\* grab, not last
C4_Witness ==
  /\ lastEvent.type = "saved"
  /\ lastEvent.kind = "toggle"
  /\ lastEvent.appId = "bolt"
  /\ ~lastEvent.base[6].enabled
  /\ life[lastEvent.view] = "live"
  /\ LET E == getEnabledApps(lastEvent.view)
     IN  \E k \in 1..(Len(E) - 1) : E[k].id = "bolt" /\ E[k + 1].id = "grab"

\* C5: a reset whose write has succeeded leaves the defaults in the store
\* and in the view that reset, and a view that reloads while a reset is the
\* last write holds the defaults; none of this depends on the state before,
\* so a second reset in a row leaves what the first left.
C5_ResetIdempotent ==
  /\ (lastEvent.type = "saved" /\ lastEvent.kind = "reset")
     => /\ storage = JSONstringify(DEFAULT_RIDE_APPS)
        /\ life[lastEvent.view] = "live"
           => rideApps[lastEvent.view] = DEFAULT_RIDE_APPS
  /\ \A v \in Views :
       (/\ lastEvent.type = "loaded"
        /\ lastEvent.view = v
        /\ life[v] = "live"
        /\ writeLog # << >>
        /\ writeLog[Len(writeLog)].kind = "reset")
       => /\ storage = JSONstringify(DEFAULT_RIDE_APPS)
          /\ rideApps[v] = DEFAULT_RIDE_APPS

\* two resets in a row have been written and the other view has reloaded
C5_Witness ==
  /\ Len(writeLog) = 2
  /\ writeLog[1].kind = "reset"
  /\ writeLog[2].kind = "reset"
  /\ lastEvent.type = "loaded"
  /\ lastEvent.view = "screen"
  /\ lastEvent.cause = writeLog[2].wid
  /\ life["screen"] = "live"
  /\ rideApps["screen"] = DEFAULT_RIDE_APPS
  /\ storage = JSONstringify(DEFAULT_RIDE_APPS)

C7_NotifyAfterWrite ==
  /\ \A i \in DOMAIN queue :
       (queue[i].op = "get" /\ queue[i].cause # 0)
       => \E k \in DOMAIN writeLog : writeLog[k].wid = queue[i].cause
  /\ (lastEvent.type \in {"loaded", "loadFailed"} /\ lastEvent.cause # 0)
     => \E k \in DOMAIN writeLog : writeLog[k].wid = lastEvent.cause

\* the screen's view has reloaded after the modal's toggle of bolt and sees it
C7_Witness ==
  /\ lastEvent.type = "loaded"
  /\ lastEvent.view = "screen"
  /\ lastEvent.cause # 0
  /\ life["screen"] = "live"
  /\ writeLog[Len(writeLog)].wid = lastEvent.cause
  /\ writeLog[Len(writeLog)].view = "modal"
  /\ storage.value[6].enabled
  /\ rideApps["screen"][6].enabled

\* ------------------------------------------------------------ dispatch
\* C8: an openRideApp invocation whose route has an empty address, or a
\* coordinate pair of which exactly one is present, is over with the error
\* outcome, having built no link and made no platform call.
C8_OrchestratorRevalidates ==
  (/\ call.via \in {"screen", "direct"}
   /\ \/ call.pickup.address = ""
      \/ call.destination.address = ""
      \/ (call.pickup.latitude = << >>) # (call.pickup.longitude = << >>)
      \/ (call.destination.latitude = << >>) # (call.destination.longitude = << >>))
  => /\ pc = "idle"
     /\ outcome = "error"
     /\ \A k \in DOMAIN calls : calls[k].d # call.d

\* C9: an attempt that handleRideAppPress refused shows the 'fill in both
\* addresses' message when an address was blank and the coordinates-required
\* message when both were there but a coordinate pair was missing, and no
\* link was built and no platform call made for it; an invocation of
\* openRideApp that the handler made has both addresses non-blank and both
\* coordinate pairs.
C9_PreDispatchValidation ==
  /\ call.via = "refused"
     => /\ \/ Blank(call.pickupAddress) \/ Blank(call.destinationAddress)
           \/ call.pickupCoords = << >> \/ call.destinationCoords = << >>
        /\ call.message =
             IF Blank(call.pickupAddress) \/ Blank(call.destinationAddress)
             THEN "requiredAddresses" ELSE "coordinatesRequired"
        /\ outcome = "error"
        /\ \E i \in DOMAIN alerts :
             alerts[i].d = call.d /\ alerts[i].kind = call.message
        /\ \A k \in DOMAIN calls : calls[k].d # call.d
  /\ call.via = "screen"
     => /\ ~Blank(call.pickup.address)
        /\ ~Blank(call.destination.address)
        /\ call.pickup.latitude # << >> /\ call.pickup.longitude # << >>
        /\ call.destination.latitude # << >>
        /\ call.destination.longitude # << >>

\* both addresses are filled in, the destination has no coordinates, and the
\* attempt has ended with the coordinates-required message
C9_Witness ==
  /\ call.via = "refused"
  /\ call.message = "coordinatesRequired"
  /\ call.pickupAddress = "Av B, 2"
  /\ call.destinationAddress = "Av B, 2"
  /\ call.pickupCoords # << >>
  /\ call.destinationCoords = << >>
  /\ calls = << >>

\* C10: when canOpenURL has answered false, the invocation made no call
\* after the query (the deep link is never opened), it is over with the
\* install prompt, which offers cancel and 'open store', and the store
\* listing is opened only by the user's choice of 'open store'.
C10_FallbackPath ==
  (/\ call.via \in {"screen", "direct"}
   /\ call.canOpen = "false")
  => /\ platformOS # "web"
     /\ pc = "idle"
     /\ outcome = "notInstalled"
     /\ \A k \in DOMAIN calls :
          /\ ~(calls[k].fn = "Linking.openURL" /\ calls[k].arg = call.deepLink)
          /\ (calls[k].d = call.d /\ calls[k].by = "openRideApp")
             => calls[k].fn \in {"createDeepLink", "Linking.canOpenURL"}
     /\ \E i \in DOMAIN alerts :
          /\ alerts[i].d = call.d
          /\ alerts[i].kind = "notInstalled"
          /\ alerts[i].buttons = << "cancel", "openPlayStore" >>
          /\ alerts[i].playStoreUrl = call.app.playStoreUrl
          /\ \A k \in DOMAIN calls :
               (calls[k].d = call.d /\ calls[k].arg = call.app.playStoreUrl)
               => /\ alerts[i].answer = "openPlayStore"
                  /\ calls[k].by = "user"

\* canOpenURL answered false for 99, the user chose 'open store' and the
\* store listing of 99 was opened
C10_Witness ==
  /\ call.via = "screen"
  /\ call.canOpen = "false"
  /\ call.app.id = "99"
  /\ \E i \in DOMAIN alerts :
       alerts[i].kind = "notInstalled" /\ alerts[i].answer = "openPlayStore"
  /\ calls[Len(calls)] = Made("Linking.openURL", "market://details?id=com.taxis99",
                              call.d, "user")

\* C11: on the native runtime, once canOpenURL has answered true the built
\* link has been handed to Linking.openURL, and when that call has returned
\* the outcome is opened; the confirmation prompt of an invocation is
\* scheduled (waiting on its timer or on screen) exactly when its open has
\* returned and its provider is one of uber, 99, lyft, bolt, grab, careem,
\* ola, yandex, and it repeats the invocation's pickup and destination.
C11_NativeOpen ==
  /\ (call.via \in {"screen", "direct"} /\ call.canOpen = "true")
     => /\ platformOS # "web"
        /\ pc \in {"openURL", "idle"}
        /\ \E k \in DOMAIN calls :
             calls[k] = Made("Linking.openURL", call.deepLink, call.d,
                             "openRideApp")
        /\ pc = "idle" => (outcome = "opened" <=> call.threw = "none")
  /\ call.via \in {"screen", "direct"}
     => ( (\/ \E i \in DOMAIN timers : timers[i].d = call.d
           \/ \E i \in DOMAIN alerts :
                alerts[i].kind = "opened" /\ alerts[i].d = call.d)
          <=> /\ pc = "idle"
              /\ call.canOpen = "true"
              /\ call.threw = "none"
              /\ call.app.id \in {"uber", "99", "lyft", "bolt", "grab",
                                  "careem", "ola", "yandex"} )
  /\ \A i \in DOMAIN timers :
       /\ timers[i].kind = "opened"
       /\ timers[i].appId \notin {"taxirio", "indriver"}
       /\ timers[i].d = call.d
          => /\ timers[i].pickup = call.pickup.address
             /\ timers[i].destination = call.destination.address
  /\ \A i \in DOMAIN alerts :
       alerts[i].kind = "opened"
       => /\ alerts[i].appId \notin {"taxirio", "indriver"}
          /\ alerts[i].buttons = << "ok" >>
          /\ alerts[i].d = call.d
             => /\ alerts[i].pickup = call.pickup.address
                /\ alerts[i].destination = call.destination.address

\* 99 was opened from the screen and its confirmation prompt, repeating the
\* two addresses, is on screen
C11_Witness ==
  /\ call.via = "screen"
  /\ call.app.id = "99"
  /\ call.canOpen = "true"
  /\ outcome = "opened"
  /\ timers = << >>
  /\ \E i \in DOMAIN alerts :
       /\ alerts[i].kind = "opened"
       /\ alerts[i].pickup = "Av B, 2"
       /\ alerts[i].destination = "Av B, 2"

\* C12: on the web runtime an invocation for uber builds the https URL of
\* Uber's web interface and hands it to WebBrowser.openBrowserAsync, and
\* when that call has returned the outcome is openedWithWebFallback;
\* canOpenURL is never asked, no custom-scheme link is opened and no
\* install or store prompt is shown.
C12_WebFallback ==
  (/\ call.via \in {"screen", "direct"}
   /\ platformOS = "web"
   /\ call.app.id = "uber")
  => /\ SubSeq(call.deepLink, 1, 23) = "https://m.uber.com/ul/?"
     /\ call.canOpen = "unasked"
     /\ pc \in {"openBrowserAsync", "idle"}
     /\ \E k \in DOMAIN calls :
          calls[k] = Made("WebBrowser.openBrowserAsync", call.deepLink,
                          call.d, "openRideApp")
     /\ \A k \in DOMAIN calls :
          calls[k].d = call.d
          => calls[k] \in { Made("createDeepLink", "uber", call.d, "openRideApp"),
                            Made("WebBrowser.openBrowserAsync", call.deepLink,
                                 call.d, "openRideApp") }
     /\ pc = "idle" => (outcome = "openedWithWebFallback" <=> call.threw = "none")
     /\ \A i \in DOMAIN alerts :
          alerts[i].d = call.d
          => /\ alerts[i].buttons # StoreButtons
             /\ call.threw = "WebBrowser.openBrowserAsync"
     /\ \A i \in DOMAIN timers : timers[i].d # call.d

\* uber chosen on the screen of the web build: the browser was given the
\* https URL with both addresses and both coordinate pairs and has returned
C12_Witness ==
  /\ platformOS = "web"
  /\ call.via = "screen"
  /\ call.app.id = "uber"
  /\ pc = "idle"
  /\ outcome = "openedWithWebFallback"
  /\ call.deepLink =
       "https://m.uber.com/ul/?action=setPickup"
       \o "&pickup%5Bformatted_address%5D=Av+B%2C+2"
       \o "&dropoff%5Bformatted_address%5D=Av+B%2C+2"
       \o "&pickup%5Blatitude%5D=-22.9068&pickup%5Blongitude%5D=-43.1729"
       \o "&dropoff%5Blatitude%5D=-22.9249&dropoff%5Blongitude%5D=-43.1777"

\* C13: on the web runtime an invocation for any provider but uber asks
\* nothing of the platform (no canOpenURL, no openURL, no browser), is over
\* at once with unsupportedOnPlatform and a prompt offering cancel and 'open
\* store', and the store listing is opened, in a new tab, only by the user's
\* choice of 'open store'.
C13_WebUnsupported ==
  (/\ call.via \in {"screen", "direct"}
   /\ platformOS = "web"
   /\ call.app.id # "uber")
  => /\ pc = "idle"
     /\ ~isLoading
     /\ outcome = "unsupportedOnPlatform"
     /\ call.canOpen = "unasked"
     /\ call.threw = "none"
     /\ \A k \in DOMAIN calls :
          (calls[k].d = call.d /\ calls[k].by = "openRideApp")
          => calls[k].fn = "createDeepLink"
     /\ \A i \in DOMAIN timers : timers[i].d # call.d
     /\ \E i \in DOMAIN alerts :
          /\ alerts[i].d = call.d
          /\ alerts[i].kind = "webNotSupported"
          /\ alerts[i].buttons = << "cancel", "openPlayStore" >>
          /\ \A j \in DOMAIN alerts : alerts[j].d = call.d => j = i
          /\ \A k \in DOMAIN calls :
               (calls[k].d = call.d /\ calls[k].fn # "createDeepLink")
               => /\ alerts[i].answer = "openPlayStore"
                  /\ calls[k] =
                       Made("window.open",
                            "https://play.google.com/store/apps/details?id="
                            \o call.app.packageId, call.d, "user")

\* 99 chosen on the screen of the web build: the prompt was answered with
\* 'open store' and the store listing was opened in a new tab
C13_Witness ==
  /\ platformOS = "web"
  /\ call.via = "screen"
  /\ call.app.id = "99"
  /\ outcome = "unsupportedOnPlatform"
  /\ \E i \in DOMAIN alerts :
       alerts[i].kind = "webNotSupported" /\ alerts[i].answer = "openPlayStore"
  /\ calls[Len(calls)] =
       Made("window.open",
            "https://play.google.com/store/apps/details?id=com.taxis99",
            call.d, "user")

\* C14: an invocation for a provider id outside the known mapping gets the
\* empty link from createDeepLink and is over with the error outcome: the
\* empty link is handed to no platform call and no install or store prompt
\* is shown.
C14_InvalidLinkSentinel ==
  (/\ call.via \in {"screen", "direct"}
   /\ \A i \in DOMAIN DEFAULT_RIDE_APPS :
        DEFAULT_RIDE_APPS[i].id # call.app.id)
  => /\ call.deepLink = ""
     /\ pc = "idle"
     /\ outcome = "error"
     /\ \A k \in DOMAIN calls :
          calls[k].d = call.d => calls[k].fn = "createDeepLink"
     /\ \A i \in DOMAIN alerts :
          alerts[i].d = call.d => alerts[i].buttons # StoreButtons

\* C15: on the native runtime, when canOpenURL or openURL has thrown, the
\* invocation is over with the store prompt (cancel / open store) for the
\* provider's store listing; it shows no generic error and its outcome is
\* not the error outcome.
C15_LinkingErrorRecovery ==
  (/\ call.via \in {"screen", "direct"}
   /\ call.threw \in {"Linking.canOpenURL", "Linking.openURL"})
  => /\ platformOS # "web"
     /\ pc = "idle"
     /\ ~isLoading
     /\ outcome = "notInstalled"
     /\ call.threw = "Linking.canOpenURL" <=> call.canOpen = "threw"
     /\ call.threw = "Linking.openURL" <=> call.canOpen = "true"
     /\ \A i \in DOMAIN timers : timers[i].d # call.d
     /\ \E i \in DOMAIN alerts :
          /\ alerts[i].d = call.d
          /\ alerts[i].kind = "openingPlayStore"
          /\ alerts[i].buttons = << "cancel", "openPlayStore" >>
          /\ alerts[i].playStoreUrl = call.app.playStoreUrl
          /\ alerts[i].pickup = call.pickup.address
          /\ alerts[i].destination = call.destination.address
          /\ \A j \in DOMAIN alerts : alerts[j].d = call.d => j = i
          /\ \A k \in DOMAIN calls :
               (calls[k].d = call.d /\ calls[k].by = "user")
               => /\ alerts[i].answer = "openPlayStore"
                  /\ calls[k].arg = call.app.playStoreUrl

\* canOpenURL answered true for indriver, openURL threw, and the store
\* prompt is open
C15_Witness ==
  /\ call.via = "screen"
  /\ call.app.id = "indriver"
  /\ call.canOpen = "true"
  /\ call.threw = "Linking.openURL"
  /\ \E i \in DOMAIN alerts :
       alerts[i].kind = "openingPlayStore" /\ alerts[i].answer = ""

C17_FailedWriteKeepsToggle ==
  (/\ lastEvent.type = "saveFailed"
   /\ lastEvent.kind = "toggle"
   /\ life[lastEvent.view] = "live")
  => /\ lastEvent.threw
     /\ \A i \in DOMAIN lastEvent.base :
          lastEvent.base[i].id = lastEvent.appId
          => rideApps[lastEvent.view][i].enabled = ~lastEvent.base[i].enabled

\* C18: when a toggle for an id outside the catalogue has completed, nothing
\* was thrown to its caller, whether the write succeeded or failed, and what
\* it has written to the store and set in the issuing view is the registry
\* the view held when the toggle was called, with no flag changed.
C18_UnknownToggleNoOp ==
  (/\ lastEvent.type \in {"saved", "saveFailed"}
   /\ lastEvent.kind = "toggle"
   /\ \A i \in DOMAIN DEFAULT_RIDE_APPS :
        DEFAULT_RIDE_APPS[i].id # lastEvent.appId)
  => /\ ~lastEvent.threw
     /\ lastEvent.type = "saved"
        => /\ storage = JSONstringify(lastEvent.base)
           /\ life[lastEvent.view] = "live"
              => rideApps[lastEvent.view] = lastEvent.base

\* ------------------------------------------------------------ dispatch
\* C19 (as stated): while the request of an invocation is outstanding, or a
\* prompt it raised is still open, or its confirmation prompt is still
\* waiting on its timer, isLoading is true and the ride-app buttons are
\* disabled.
C19_DisabledUntilPromptsResolved ==
  (/\ call.via \in {"screen", "direct"}
   /\ \/ pc # "idle"
      \/ \E i \in DOMAIN timers : timers[i].d = call.d
      \/ \E i \in DOMAIN alerts : alerts[i].d = call.d /\ alerts[i].answer = "")
  => /\ isLoading
     /\ ButtonDisabled

\* C19 (amended): exactly while the request of an invocation is outstanding
\* isLoading is true, and then the ride-app buttons are disabled, so that a
\* press of a button starts no second invocation; once the request has
\* returned isLoading is false, whether or not a prompt is open or waiting.
C19_DisabledWhileRequestOutstanding ==
  /\ isLoading <=> pc # "idle"
  /\ pc # "idle" => /\ ButtonDisabled
                    /\ outcome = "pending"
                    /\ call.via \in {"screen", "direct"}

\* an invocation started from the screen is waiting for canOpenURL: both
\* addresses and both coordinate pairs are filled in, so that isLoading is
\* all that disables the buttons
C19_Witness ==
  /\ call.via = "screen"
  /\ pc = "canOpenURL"
  /\ isLoading
  /\ ~Blank(pickupAddress) /\ ~Blank(destinationAddress)
  /\ pickupCoords # << >> /\ destinationCoords # << >>

C21_CarriesRoute(head, mid, safe, plus) ==
  LET RECURSIVE Index(_, _)
      Index(str, c) ==
        IF str = "" THEN 0
        ELSE IF SubSeq(str, 1, 1) = c THEN 1
        ELSE LET r == Index(SubSeq(str, 2, Len(str)), c)
             IN  IF r = 0 THEN 0 ELSE r + 1
      RECURSIVE Decoded(_)
      Decoded(str) ==
        IF str = "" THEN ""
        ELSE IF SubSeq(str, 1, 1) = "%"
        THEN (CASE SubSeq(str, 1, 3) = "%20" -> " "
                [] SubSeq(str, 1, 3) = "%23" -> "#"
                [] SubSeq(str, 1, 3) = "%26" -> "&"
                [] SubSeq(str, 1, 3) = "%2C" -> ","
                [] SubSeq(str, 1, 3) = "%2F" -> "/"
                [] SubSeq(str, 1, 3) = "%3D" -> "="
                [] SubSeq(str, 1, 3) = "%3F" -> "?")
             \o Decoded(SubSeq(str, 4, Len(str)))
        ELSE (IF plus /\ SubSeq(str, 1, 1) = "+" THEN " "
              ELSE SubSeq(str, 1, 1))
             \o Decoded(SubSeq(str, 2, Len(str)))
      Encoding(str) ==
        \A i \in 1..Len(str) : SubSeq(str, i, i) \in safe \cup {"%"}
      StartsWith(str, prefix) ==
        Len(str) >= Len(prefix) /\ SubSeq(str, 1, Len(prefix)) = prefix
      link == call.deepLink
      rest == SubSeq(link, Len(head) + 1, Len(link))
      i == Index(rest, "&")
      pickup == SubSeq(rest, 1, i - 1)
      after == SubSeq(rest, i + 1, Len(rest))
      tail == SubSeq(after, Len(mid) + 1, Len(after))
      j == Index(tail, "&")
      destination == IF j = 0 THEN tail ELSE SubSeq(tail, 1, j - 1)
  IN  /\ StartsWith(link, head)
      /\ i > 0
      /\ StartsWith(after, mid)
      /\ Encoding(pickup) /\ Decoded(pickup) = call.pickup.address
      /\ Encoding(destination)
      /\ Decoded(destination) = call.destination.address

\* C21 (as stated): for provider uber and any route the built link has the
\* scheme uber, contains action=setPickup, and carries the pickup and the
\* destination address percent-encoded, no raw address text in it
C21_UberSchemeLink ==
  (call.via = "build" /\ call.app.id = "uber") =>
    C21_CarriesRoute("uber://?action=setPickup&pickup[formatted_address]=",
                     "dropoff[formatted_address]=",
                     Alnum \cup {"-", "_", ".", "!", "~", "*", "'", "(", ")"},
                     FALSE)

\* C21 (amended): for provider uber and any route the built link contains
\* action=setPickup and carries the pickup and the destination address in
\* encoded form, no raw address text in it; on a native runtime it has the
\* scheme uber and the addresses are percent-encoded, on the web runtime it
\* is the https://m.uber.com/ul/ URL and the addresses are form-encoded
\* (percent-encoded, a space as "+")
C21_UberLinkCarriesEncodedRoute ==
  (call.via = "build" /\ call.app.id = "uber") =>
    IF platformOS # "web"
    THEN C21_CarriesRoute(
           "uber://?action=setPickup&pickup[formatted_address]=",
           "dropoff[formatted_address]=",
           Alnum \cup {"-", "_", ".", "!", "~", "*", "'", "(", ")"}, FALSE)
    ELSE C21_CarriesRoute(
           "https://m.uber.com/ul/?action=setPickup&pickup%5Bformatted_address%5D=",
           "dropoff%5Bformatted_address%5D=",
           Alnum \cup {"*", "-", ".", "_", "+"}, TRUE)

\* the uber link of a route whose addresses need escaping was built on a
\* native runtime
C21_Witness ==
  /\ call.via = "build"
  /\ call.app.id = "uber"
  /\ platformOS = "android"
  /\ call.pickup.address = "a&b=c #1"
  /\ call.destination.address = "x y/z?"
  /\ call.deepLink =
       "uber://?action=setPickup&pickup[formatted_address]=a%26b%3Dc%20%231"
       \o "&dropoff[formatted_address]=x%20y%2Fz%3F"

\* C22: for provider 99 and a route with all four coordinates, the built
\* link has exactly one parameter of each of the names pickup_latitude,
\* pickup_longitude, dropoff_latitude and dropoff_longitude, and their values
\* are the decimal notations of the route's pickup latitude, pickup
\* longitude, destination latitude and destination longitude, in this order
C22_NinetyNineCoordinates ==
  (/\ call.via = "build"
   /\ call.app.id = "99"
   /\ call.pickup.latitude # << >> /\ call.pickup.longitude # << >>
   /\ call.destination.latitude # << >>
   /\ call.destination.longitude # << >>) =>
    LET RECURSIVE Split(_)
        \* the segments of str between its "&"
        Split(str) ==
          IF \A i \in 1..Len(str) : SubSeq(str, i, i) # "&" THEN << str >>
          ELSE LET i == CHOOSE k \in 1..Len(str) :
                          /\ SubSeq(str, k, k) = "&"
                          /\ \A l \in 1..(k - 1) : SubSeq(str, l, l) # "&"
               IN  << SubSeq(str, 1, i - 1) >>
                   \o Split(SubSeq(str, i + 1, Len(str)))
        \* the decimal notation of a coordinate
        Decimal(n) ==
          CASE n = -229068 -> "-22.9068" [] n = -431729 -> "-43.1729"
            [] n = -229249 -> "-22.9249" [] n = -431777 -> "-43.1777"
            [] n = 0 -> "0"              [] n = 5 -> "0.0005"
            [] n = -5 -> "-0.0005"       [] n = 10000 -> "1"
            [] n = 1800000 -> "180"
        head == "taxis99://call?"
        link == call.deepLink
        parameters == Split(SubSeq(link, Len(head) + 1, Len(link)))
        Named(name) ==
          { k \in DOMAIN parameters :
              /\ Len(parameters[k]) >= Len(name) + 1
              /\ SubSeq(parameters[k], 1, Len(name) + 1) = name \o "=" }
        Carries(name, n) ==
          /\ Cardinality(Named(name)) = 1
          /\ \A k \in Named(name) : parameters[k] = name \o "=" \o Decimal(n)
    IN  /\ SubSeq(link, 1, Len(head)) = head
        /\ Carries("pickup_latitude", call.pickup.latitude[1])
        /\ Carries("pickup_longitude", call.pickup.longitude[1])
        /\ Carries("dropoff_latitude", call.destination.latitude[1])
        /\ Carries("dropoff_longitude", call.destination.longitude[1])

\* the route of Scenario B was built for 99
C22_Witness ==
  /\ call.via = "build"
  /\ call.app.id = "99"
  /\ call.pickup.latitude = << -229068 >>
  /\ call.pickup.longitude = << -431729 >>
  /\ call.destination.latitude = << -229249 >>
  /\ call.destination.longitude = << -431777 >>
  /\ call.deepLink =
       "taxis99://call?pickup_latitude=-22.9068&pickup_longitude=-43.1729"
       \o "&pickup_title=Av%20B%2C%202&dropoff_latitude=-22.9249"
       \o "&dropoff_longitude=-43.1777&dropoff_title=Rua%20C"

\* C24: for taxirio and for indriver the built link is a bare scheme-open
\* URI: the provider's scheme, "://", and a path of letters, with no query
\* and no text of the route, hence the same link for every route; it is
\* never the empty string
C24_BareSchemeLink ==
  (call.via = "build" /\ call.app.id \in {"taxirio", "indriver"}) =>
    LET link == call.deepLink
        prefix == call.app.deepLinkScheme \o "://"
        Letters == { c \in Alnum : c \notin {"0", "1", "2", "3", "4", "5",
                                              "6", "7", "8", "9"} }
    IN  /\ link # ""
        /\ Len(link) > Len(prefix)
        /\ SubSeq(link, 1, Len(prefix)) = prefix
        /\ \A i \in (Len(prefix) + 1)..Len(link) :
             SubSeq(link, i, i) \in Letters
        /\ link = IF call.app.id = "taxirio"
                  THEN "br.gov.rj.taxi.rio.passenger://ride"
                  ELSE "indriver://open"

\* the indriver link was built for a route with addresses and coordinates
C24_Witness ==
  /\ call.via = "build"
  /\ call.app.id = "indriver"
  /\ call.pickup.address = "Av B, 2"
  /\ call.destination.address = "x y/z?"
  /\ call.destination.latitude = << 10000 >>
  /\ call.deepLink = "indriver://open"

\* ---------------------------------------------------- dispatch ordering
\* C23: the calls one openRideApp invocation makes are, in this order, one
\* createDeepLink, at most one Linking.canOpenURL, on the link that was
\* built, and at most one Linking.openURL, on that same link, made only
\* after the query and only when the query answered true
C23_BuildCheckAct ==
  call.via \in {"screen", "direct"} =>
    LET own == SelectSeq(calls, LAMBDA c : c.by = "openRideApp" /\ c.d = call.d)
        At(fn) == { k \in DOMAIN own : own[k].fn = fn }
    IN  /\ At("createDeepLink") = {1}
        /\ At("Linking.canOpenURL") \subseteq {2}
        /\ At("Linking.openURL") \subseteq {3}
        /\ \A k \in At("Linking.canOpenURL") : own[k].arg = call.deepLink
        /\ \A k \in At("Linking.openURL") :
             /\ At("Linking.canOpenURL") = {2}
             /\ call.canOpen = "true"
             /\ own[k].arg = call.deepLink
             /\ own[k].arg = own[2].arg
        /\ call.canOpen \in {"unasked", "false", "threw"} =>
             At("Linking.openURL") = {}
        /\ call.canOpen # "unasked" => At("Linking.canOpenURL") = {2}

\* an invocation built a non-empty link, queried it, got true, opened it
C23_Witness ==
  /\ call.via \in {"screen", "direct"}
  /\ call.deepLink # ""
  /\ call.canOpen = "true"
  /\ pc = "idle"
  /\ outcome = "opened"
  /\ calls = << Made("createDeepLink", call.app.id, call.d, "openRideApp"),
                Made("Linking.canOpenURL", call.deepLink, call.d, "openRideApp"),
                Made("Linking.openURL", call.deepLink, call.d, "openRideApp") >>

\* C25 (as stated): when an openRideApp invocation for taxirio or indriver
\* on a native runtime has ended, the open was attempted and a prompt that
\* tells the user to enter the addresses manually (the not-installed prompt
\* or the store prompt of the linking-error path, the two that carry the
\* manual-entry text) has been shown or is scheduled for that invocation,
\* also when the app was opened
C25_ManualEntryNotice ==
  (/\ call.via \in {"screen", "direct"}
   /\ call.app.id \in {"taxirio", "indriver"}
   /\ platformOS # "web"
   /\ pc = "idle") =>
    /\ \E k \in DOMAIN calls :
         /\ calls[k].fn = "Linking.canOpenURL"
         /\ calls[k].d = call.d
    /\ \/ \E i \in DOMAIN alerts :
            /\ alerts[i].d = call.d
            /\ alerts[i].kind \in {"notInstalled", "openingPlayStore"}
       \/ \E i \in DOMAIN timers :
            /\ timers[i].d = call.d
            /\ timers[i].kind \in {"notInstalled", "openingPlayStore"}

\* ------------------------------------------------------- registry shape
\* C26: in every reachable state the registry of every view has as many
\* entries as the compiled-in catalogue, entry i has the id of the
\* catalogue's entry i and differs from it in enabled at most, and no two
\* entries have the same id
C26_RegistryShape ==
  \A v \in Views :
    LET apps == rideApps[v]
    IN  /\ DOMAIN apps = DOMAIN DEFAULT_RIDE_APPS
        /\ \A i \in DOMAIN apps :
             /\ apps[i].id = DEFAULT_RIDE_APPS[i].id
             /\ apps[i].enabled \in BOOLEAN
             /\ [apps[i] EXCEPT !.enabled = DEFAULT_RIDE_APPS[i].enabled]
                  = DEFAULT_RIDE_APPS[i]
        /\ \A i, j \in DOMAIN apps : i # j => apps[i].id # apps[j].id

\* a view loaded a blob that names a provider the catalogue does not have,
\* then a toggle was saved: its registry is not the compiled-in one
C26_Witness ==
  /\ lastEvent.type = "saved"
  /\ lastEvent.kind = "toggle"
  /\ lastEvent.appId = "bolt"
  /\ \E i \in DOMAIN DEFAULT_RIDE_APPS :
       /\ DEFAULT_RIDE_APPS[i].id = "uber"
       /\ ~rideApps["modal"][i].enabled
  /\ \E i \in DOMAIN DEFAULT_RIDE_APPS :
       /\ DEFAULT_RIDE_APPS[i].id = "bolt"
       /\ rideApps["modal"][i].enabled

\* ------------------------------------------------- route endpoints
\* C27: the coordinates the screen holds for each endpoint, whichever
\* producer filled them in (a prediction of the address input, the current
\* location, a favorite place, a favorite route), are either absent or a
\* pair with both a latitude and a longitude
C27_CoordinatesAllOrNothing ==
  \A coords \in {pickupCoords, destinationCoords} :
    \/ coords = << >>
    \/ /\ Len(coords) = 1
       /\ DOMAIN coords[1] = {"latitude", "longitude"}
       /\ coords[1].latitude \in Int
       /\ coords[1].longitude \in Int

\* a favorite route whose pickup has a latitude only and whose destination
\* has a longitude only was used: both endpoints are without coordinates
C27_Witness ==
  /\ pickupAddress = "Av B, 2"
  /\ pickupCoords = << >>
  /\ destinationAddress = "Praia"
  /\ destinationCoords = << >>

\* --------------------------------------------------- notification count
\* C28: the step in which the write of a toggle or a reset succeeds invokes
\* every subscribed listener once, in subscription order: the loads the
\* listeners start are the last requests issued, one per listener, in the
\* order of the listeners, and no other request belongs to that write; the
\* step in which a write fails starts no load and leaves the stored item as
\* it was
C28_NotificationCount ==
  [][ /\ Len(writeLog') = Len(writeLog) + 1 =>
           LET wid == writeLog'[Len(writeLog')].wid
               n == Len(listeners)
               kept == Len(queue') - n
           IN  /\ writeLog'[Len(writeLog')].kind \in {"toggle", "reset"}
               /\ listeners' = listeners
               /\ kept = Len(queue) - 1
               /\ SubSeq(queue', 1, kept) = Tail(queue)
               /\ \A i \in 1..n :
                    /\ queue'[kept + i].op = "get"
                    /\ queue'[kept + i].view = listeners[i]
                    /\ queue'[kept + i].cause = wid
               /\ \A k \in 1..kept :
                    queue'[k].op = "get" => queue'[k].cause # wid
      /\ (lastEvent'.type = "saveFailed" /\ lastEvent' # lastEvent) =>
           /\ storage' = storage
           /\ writeLog' = writeLog
           /\ queue' = Tail(queue)
           /\ \A k \in DOMAIN queue' :
                queue'[k].op = "get" => queue'[k].cause # lastEvent'.wid
    ]_vars

\* a write succeeded while two listeners were subscribed: the two loads it
\* started are all that is in flight, in subscription order
C28_Witness ==
  /\ lastEvent.type = "saved"
  /\ Len(listeners) = 2
  /\ queue = << [op |-> "get", view |-> listeners[1], cause |-> lastEvent.wid],
                [op |-> "get", view |-> listeners[2], cause |-> lastEvent.wid] >>

\* ---------------------------------------------------------- lost toggle
\* C29 (as stated): the store holds the saved defaults; when it has then
\* taken the writes of two toggles, of two different catalogue ids, the
\* stored enabled flags of both ids are the opposite of what was stored
\* before the first of the two writes, the defaults
C29_NoLostToggle ==
  (/\ Len(writeLog) = 2
   /\ writeLog[1].kind = "toggle" /\ writeLog[2].kind = "toggle"
   /\ writeLog[1].appId # writeLog[2].appId
   /\ \A k \in {1, 2} : \E i \in DOMAIN DEFAULT_RIDE_APPS :
        DEFAULT_RIDE_APPS[i].id = writeLog[k].appId) =>
    /\ storage.kind = "json"
    /\ \A k \in {1, 2} : \A i \in DOMAIN DEFAULT_RIDE_APPS :
         DEFAULT_RIDE_APPS[i].id = writeLog[k].appId =>
           storage.value[i].enabled = ~DEFAULT_RIDE_APPS[i].enabled

\* --------------------------------------------------- dispatch termination
\* C30: provided every platform call it awaits settles, an openRideApp
\* invocation that is waiting ends; while it waits isLoading is true and
\* there is no outcome yet; the step that ends it, and the step of an
\* invocation that ends without waiting, set one of the outcomes and leave
\* isLoading false; the outcome then stays until the next attempt
C30_DispatchTerminates ==
  /\ [](pc # "idle" => isLoading /\ outcome = "pending")
  /\ [][ /\ (pc # "idle" /\ pc' = "idle") =>
              /\ ~isLoading'
              /\ outcome' \in {"opened", "openedWithWebFallback",
                               "notInstalled", "error"}
              /\ dispatches' = dispatches
         /\ (dispatches' # dispatches /\ call'.via \in {"screen", "direct"}) =>
              \/ pc' # "idle" /\ isLoading' /\ outcome' = "pending"
              \/ /\ pc' = "idle" /\ ~isLoading'
                 /\ outcome' = "unsupportedOnPlatform"
         /\ (pc = "idle" /\ dispatches' = dispatches) =>
              /\ outcome' = outcome
              /\ isLoading' = isLoading
              /\ pc' = "idle"
     ]_vars
  /\ (pc # "idle") ~> (pc = "idle" /\ ~isLoading /\ outcome # "pending")

\* an invocation waited for Linking.openURL, the call threw, and the
\* invocation has ended with isLoading false
C30_Witness ==
  /\ call.via \in {"screen", "direct"}
  /\ call.threw = "Linking.openURL"
  /\ pc = "idle"
  /\ ~isLoading
  /\ outcome = "notInstalled"
  /\ dispatches = 1

=============================================================================
